---- MODULE Spec2Model ----
(***************************************************************************)
(* A model of the git reference resolver of dagger: the content hasher     *)
(* (core/contenthash.go), the remote ref index (util/gitutil/ls_remote.go) *)
(* and the redirect based resolver of the git schema (core/schema/git.go), *)
(* with the context-aware pipes of the session (engine/session/ctxio) and  *)
(* the runner of a module's checks (core/checks.go).                       *)
(*                                                                         *)
(* Strings that the code takes apart (ref names, subdirs, patterns) are    *)
(* sequences of one-character strings, so that prefixes, suffixes,         *)
(* concatenation and byte order are computed and not assumed.              *)
(***************************************************************************)
EXTENDS Integers, Sequences, FiniteSets, TLC

VARIABLES
    \* ---- content hasher ----
    ckPc,       \* caller -> position in GetContentHashFromDefWithOpts
    ckIn,       \* caller -> the arguments of its call (subdir already normalised)
    ckCall,     \* caller -> id of the singleflight call it waits on (0: none)
    ckOut,      \* caller -> what its call returned
    sfGroup,    \* checksumG: the ids of the calls registered under their key
    sfCalls,    \* id -> the call: its closure, position in fn, result
    refMeta,    \* ref -> digest persisted in the ref's metadata (NoDigest: none)
    mdOp,       \* the last metadata operation performed, with the call that did it
    \* ---- remote ref index ----
    rmHeap,     \* the Ref objects: address -> [Name, SHA]
    rmRefs,     \* remote.Refs: sequence of addresses
    rmMap,      \* remote.RefMap: name -> address
    rmSymrefs,  \* remote.Symrefs: name -> target name
    rmHead,     \* remote.Head: the override of HEAD (set = FALSE: nil)
    rmAdds,     \* number of Add calls made
    rmRes,      \* the last call on the Remote and what it returned
    \* ---- resolver of the git schema ----
    rsEnv,      \* the world outside: remotes, clients' agents and credential stores
    rsCur,      \* the client request being served (op = "": none)
    rsStack,    \* the nested srv.Select calls in progress: a stack of frames
    rsCache,    \* the engine's cache: entries [key, val] of successful calls
    rsLog,      \* what the current request did, in order
    rsValid,    \* <<client, remote>>: leaf validations that client passed
    rsOut,      \* the last result delivered to a client
    rsOps,      \* number of client requests started
    \* ---- context-aware reader and writer ----
    cxKind,     \* which constructor ran: "reader" (NewReader) or "writer" (NewWriter)
    cxCtx,      \* ctx.Err() of the derived context ("": not cancelled)
    cxDone,     \* number of close(done) executed (2: the second one panicked)
    cxPipe,     \* the io.Pipe: the close errors of its two ends
    cxPc,       \* position of each goroutine: copy, wait, user, closer
    cxErr,      \* what io.Copy returned and what the user's call returned
    cxLeft,     \* chunks still to come from the source
    \* ---- runner of checks ----
    cgHeap,     \* the Check objects: address -> [Path, Completed, Passed, Message]
    cgArrs,     \* the backing arrays of the Checks slices: id -> addresses
    cgCall,     \* the call of Run in progress or returned
    cgRuns      \* number of calls of Run made

ckVars == <<ckPc, ckIn, ckCall, ckOut, sfGroup, sfCalls, refMeta, mdOp>>

rmVars == <<rmHeap, rmRefs, rmMap, rmSymrefs, rmHead, rmAdds, rmRes>>

rsVars == <<rsEnv, rsCur, rsStack, rsCache, rsLog, rsValid, rsOut, rsOps>>

cxVars == <<cxKind, cxCtx, cxDone, cxPipe, cxPc, cxErr, cxLeft>>

cgVars == <<cgHeap, cgArrs, cgCall, cgRuns>>

vars == <<ckVars, rmVars, rsVars, cxVars, cgVars>>

\* What an operation of one component leaves alone: the other components
CkOnly == UNCHANGED <<rmVars, rsVars, cxVars, cgVars>>

RmOnly == UNCHANGED <<ckVars, rsVars, cxVars, cgVars>>

RsOnly == UNCHANGED <<ckVars, rmVars, cxVars, cgVars>>

CxOnly == UNCHANGED <<ckVars, rmVars, rsVars, cgVars>>

CgOnly == UNCHANGED <<ckVars, rmVars, rsVars, cxVars>>

\* No pipe was ever made
CxIdle ==
    /\ cxKind = "none"
    /\ cxCtx = ""
    /\ cxDone = 0
    /\ cxPipe = [werr |-> "", rerr |-> ""]
    /\ cxPc = [copy |-> "exit", wait |-> "exit", user |-> "idle", closer |-> "idle"]
    /\ cxErr = [copy |-> "", user |-> ""]
    /\ cxLeft = 0

\* No group of checks was ever made
CgIdle ==
    /\ cgHeap = <<>>
    /\ cgArrs = <<>>
    /\ cgCall = [pc |-> "idle"]
    /\ cgRuns = 0

OthersIdle == CxIdle /\ CgIdle

\* No request was ever made to the resolver
NoEnv == [world |-> "none"]

NoReq == [op |-> ""]

NoDelivery == [client |-> ""]

RsIdle ==
    /\ rsEnv = NoEnv
    /\ rsCur = NoReq
    /\ rsStack = <<>>
    /\ rsCache = {}
    /\ rsLog = <<>>
    /\ rsValid = {}
    /\ rsOut = NoDelivery
    /\ rsOps = 0

----------------------------------------------------------------------------
(* Strings as sequences of characters *)

HasPrefix(s, p) == Len(s) >= Len(p) /\ SubSeq(s, 1, Len(p)) = p

HasSuffix(s, p) == Len(s) >= Len(p) /\ SubSeq(s, Len(s) - Len(p) + 1, Len(s)) = p

TrimPrefix(s, p) == IF HasPrefix(s, p) THEN SubSeq(s, Len(p) + 1, Len(s)) ELSE s

\* The characters used, in ascending byte order
ByteOrder ==
    << "\t", " ", "-", ".", "/", "0", "1", "2", "3", "4", "5", "6", "7", "8", "9", ":",
       "A", "B", "C", "D", "E", "F", "G", "H", "^",
       "a", "b", "c", "d", "e", "f", "g", "h", "i", "m", "r", "s", "t", "v", "x", "z",
       "{", "}" >>

Code(ch) == CHOOSE i \in 1..Len(ByteOrder) : ByteOrder[i] = ch

\* a < b as Go compares strings: byte by byte, a proper prefix first
RECURSIVE StrLess(_, _)
StrLess(a, b) ==
    IF b = <<>> THEN FALSE
    ELSE IF a = <<>> THEN TRUE
    ELSE IF Head(a) # Head(b) THEN Code(Head(a)) < Code(Head(b))
    ELSE StrLess(Tail(a), Tail(b))

StrGeq(a, b) == ~StrLess(a, b)

\* index of the first sep in s, 0 when there is none
RECURSIVE IndexOf(_, _, _)
IndexOf(s, sep, from) ==
    IF from > Len(s) THEN 0
    ELSE IF s[from] = sep THEN from
    ELSE IndexOf(s, sep, from + 1)

RECURSIVE Join(_, _)
Join(elems, sep) ==
    IF elems = <<>> THEN <<>>
    ELSE IF Len(elems) = 1 THEN elems[1]
    ELSE elems[1] \o sep \o Join(Tail(elems), sep)

----------------------------------------------------------------------------
(* ContentHasher: core/contenthash.go *)

NumCallers == 2

Callers == 1..NumCallers

\* The immutable refs of the backend, and the definitions that evaluate to
\* them: d1 and d1b are different definitions of the same content.
CkRefs == {"r1", "r2"}

CkDefs == {"d1", "d1b", "d2"}

\* bk.Solve, SingleRef, Result: the ref a definition evaluates to
SolvedRef(def) == IF def = "d2" THEN "r2" ELSE "r1"

Slash == <<"/">>

NL == <<"\n">>

CkSubdirs == {<<>>, Slash, <<"/", "a">>}

PatGit == <<".", "g", "i", "t">>

CkOpts ==
    { [FollowLinks |-> TRUE,  Wildcard |-> FALSE, IncludePatterns |-> <<>>, ExcludePatterns |-> <<>>],
      [FollowLinks |-> FALSE, Wildcard |-> FALSE, IncludePatterns |-> <<>>, ExcludePatterns |-> <<>>],
      [FollowLinks |-> FALSE, Wildcard |-> FALSE, IncludePatterns |-> <<>>, ExcludePatterns |-> <<PatGit>>],
      \* two patterns, and one pattern that holds a line break
      [FollowLinks |-> FALSE, Wildcard |-> FALSE, IncludePatterns |-> << <<"a">>, <<"b">> >>, ExcludePatterns |-> <<>>],
      [FollowLinks |-> FALSE, Wildcard |-> FALSE, IncludePatterns |-> << <<"a">> \o NL \o <<"b">> >>, ExcludePatterns |-> <<>>] }

NoDigest == <<>>

NoOpts == [FollowLinks |-> FALSE, Wildcard |-> FALSE, IncludePatterns |-> <<>>, ExcludePatterns |-> <<>>]

\* subdir == "" becomes "/"
NormalizeSubdir(subdir) == IF subdir = <<>> THEN Slash ELSE subdir

StoreMetadataIgnoringExclude(subdir, opts) ==
    /\ subdir = Slash
    /\ Len(opts.IncludePatterns) = 0

StoreMetadata(subdir, opts) ==
    /\ subdir = Slash
    /\ Len(opts.IncludePatterns) = 0
    /\ Len(opts.ExcludePatterns) = 0

\* hashutil.HashStrings over the four strings, taken as injective on them
checksumOptsKey(opts) ==
    << opts.FollowLinks, opts.Wildcard,
       Join(opts.IncludePatterns, NL), Join(opts.ExcludePatterns, NL) >>

ChecksumKeyWithoutOpts(def, ref, subdir, opts) ==
    << ref, TrimPrefix(subdir, Slash) >>

ChecksumKeyByDefinition(def, ref, subdir, opts) ==
    << def, TrimPrefix(subdir, Slash), checksumOptsKey(opts) >>

\* def is in scope at the call but is no part of the key
ChecksumKey(def, ref, subdir, opts) ==
    << ref, TrimPrefix(subdir, Slash), checksumOptsKey(opts) >>

\* The digest a walk of ref at subdir with opts yields; the backend roots the path.
BkChecksum(ref, subdir, opts) ==
    << ref, TrimPrefix(subdir, Slash), opts >>

\* A digest left in the ref's metadata by the local source implementation.
LocalSourceDigest(ref) == BkChecksum(ref, Slash, NoOpts)

\* The calls made: on d1 the root (as "" and as "/") with the plain options,
\* the root following links (GetContentHashFromDef, line 120) and with an
\* exclude pattern, and a subdir following links; the plain root of d1b and
\* of d2.
CkInputs ==
    [def : {"d1"}, subdir : {<<>>, Slash}, opts : {NoOpts}]
        \cup {[def |-> "d1", subdir |-> Slash, opts |-> o] :
                 o \in {x \in CkOpts : x.FollowLinks}}
        \cup {[def |-> "d1", subdir |-> sd, opts |-> o] :
                 sd \in CkSubdirs \ {<<>>, Slash}, o \in {x \in CkOpts : x.FollowLinks}}
        \cup {[def |-> "d1", subdir |-> Slash, opts |-> o] :
                 o \in {x \in CkOpts : x.ExcludePatterns # <<>> \/ x.IncludePatterns # <<>>}}
        \cup [def : {"d1b", "d2"}, subdir : {Slash}, opts : {NoOpts}]

NoCall ==
    [pc |-> "none", key |-> <<>>, ref |-> "", subdir |-> <<>>, opts |-> NoOpts,
     store |-> FALSE, walked |-> FALSE, fromMeta |-> FALSE, val |-> NoDigest, err |-> ""]

\* during: the calls that were running when this one was made
NoIn == [def |-> "", ref |-> "", subdir |-> <<>>, opts |-> NoOpts, store |-> FALSE, during |-> {}]

NoOut == [val |-> NoDigest, err |-> ""]

CkInit ==
    /\ ckPc = [c \in Callers |-> "idle"]
    /\ ckIn = [c \in Callers |-> NoIn]
    /\ ckCall = [c \in Callers |-> 0]
    /\ ckOut = [c \in Callers |-> NoOut]
    /\ sfGroup = {}
    /\ sfCalls = [c \in Callers |-> NoCall]
    /\ refMeta \in [CkRefs -> {NoDigest}] \cup {[r \in CkRefs |-> LocalSourceDigest(r)]}
    /\ mdOp = [op |-> "none", call |-> 0]

\* lines 131-161: normalise the subdir, decide whether metadata is used, and
\* evaluate the definition; a failed evaluation returns before the dedup
CkBegin(c, def, subdir, opts) ==
    /\ ckPc[c] = "idle"
    /\ \A d \in Callers : d < c => ckPc[d] # "idle"
    /\ ckIn' = [ckIn EXCEPT ![c] =
                  [def |-> def, ref |-> SolvedRef(def),
                   subdir |-> NormalizeSubdir(subdir), opts |-> opts,
                   store |-> StoreMetadata(NormalizeSubdir(subdir), opts),
                   during |-> {d \in Callers : ckPc[d] \in {"do", "wait"}}]]
    /\ \/ /\ ckPc' = [ckPc EXCEPT ![c] = "do"]
          /\ UNCHANGED ckOut
       \/ /\ ckPc' = [ckPc EXCEPT ![c] = "done"]
          /\ ckOut' = [ckOut EXCEPT ![c] = [val |-> NoDigest, err |-> "solve"]]
    /\ UNCHANGED <<ckCall, sfGroup, sfCalls, refMeta, mdOp>>
    /\ CkOnly

CkKeyOf(c) == ChecksumKey(ckIn[c].def, ckIn[c].ref, ckIn[c].subdir, ckIn[c].opts)

Registered(key) == {f \in sfGroup : sfCalls[f].key = key}

CkDoWithoutDedup(c) ==
    /\ ckPc[c] = "do"
    /\ ckCall' = [ckCall EXCEPT ![c] = c]
    /\ sfGroup' = sfGroup \cup {c}
    /\ sfCalls' = [sfCalls EXCEPT ![c] =
           [NoCall EXCEPT !.pc = "finalize", !.key = CkKeyOf(c),
                          !.ref = ckIn[c].ref, !.subdir = ckIn[c].subdir,
                          !.opts = ckIn[c].opts, !.store = ckIn[c].store]]
    /\ ckPc' = [ckPc EXCEPT ![c] = "wait"]
    /\ UNCHANGED <<ckIn, ckOut, refMeta, mdOp>>
    /\ CkOnly

\* lines 163-168: checksumG.Do: join the call registered under the key, or
\* register a new one whose fn runs with this caller's closure
CkDo(c) ==
    /\ ckPc[c] = "do"
    /\ IF Registered(CkKeyOf(c)) # {}
       THEN /\ ckCall' = [ckCall EXCEPT ![c] = CHOOSE f \in Registered(CkKeyOf(c)) : TRUE]
            /\ UNCHANGED <<sfGroup, sfCalls>>
       ELSE /\ ckCall' = [ckCall EXCEPT ![c] = c]
            /\ sfGroup' = sfGroup \cup {c}
            /\ sfCalls' = [sfCalls EXCEPT ![c] =
                   [NoCall EXCEPT !.pc = "finalize", !.key = CkKeyOf(c),
                                  !.ref = ckIn[c].ref, !.subdir = ckIn[c].subdir,
                                  !.opts = ckIn[c].opts, !.store = ckIn[c].store]]
    /\ ckPc' = [ckPc EXCEPT ![c] = "wait"]
    /\ UNCHANGED <<ckIn, ckOut, refMeta, mdOp>>
    /\ CkOnly

\* fn returns: the call is complete and its key is free again
FnReturn(f, val, err, fromMeta) ==
    /\ sfCalls' = [sfCalls EXCEPT ![f].pc = "done", ![f].val = val, ![f].err = err,
                                  ![f].fromMeta = fromMeta]
    /\ sfGroup' = sfGroup \ {f}

UsesMetadata(f) == sfCalls[f].store /\ sfCalls[f].subdir = Slash

\* lines 169-171
FnFinalize(f) ==
    /\ sfCalls[f].pc = "finalize"
    /\ \/ /\ sfCalls' = [sfCalls EXCEPT ![f].pc =
                            IF UsesMetadata(f) THEN "getmd" ELSE "walk"]
          /\ UNCHANGED sfGroup
       \/ FnReturn(f, NoDigest, "finalize", FALSE)
    /\ UNCHANGED <<ckPc, ckIn, ckCall, ckOut, refMeta, mdOp>>
    /\ CkOnly

\* lines 175-183 with the persisted digest never found
FnGetMetadataNotFound(f) ==
    /\ sfCalls[f].pc = "getmd"
    /\ mdOp' = [op |-> "get", call |-> f]
    /\ sfCalls' = [sfCalls EXCEPT ![f].pc = "walk"]
    /\ UNCHANGED <<ckPc, ckIn, ckCall, ckOut, refMeta, sfGroup>>
    /\ CkOnly

\* lines 175-183
FnGetMetadata(f) ==
    /\ sfCalls[f].pc = "getmd"
    /\ mdOp' = [op |-> "get", call |-> f]
    /\ IF refMeta[sfCalls[f].ref] # NoDigest
       THEN FnReturn(f, refMeta[sfCalls[f].ref], "", TRUE)
       ELSE /\ sfCalls' = [sfCalls EXCEPT ![f].pc = "walk"]
            /\ UNCHANGED sfGroup
    /\ UNCHANGED <<ckPc, ckIn, ckCall, ckOut, refMeta>>
    /\ CkOnly

\* lines 191-194
FnWalk(f) ==
    /\ sfCalls[f].pc = "walk"
    /\ \/ IF UsesMetadata(f)
          THEN /\ sfCalls' = [sfCalls EXCEPT ![f].pc = "setmd", ![f].walked = TRUE,
                      ![f].val = BkChecksum(sfCalls[f].ref, sfCalls[f].subdir, sfCalls[f].opts)]
               /\ UNCHANGED sfGroup
          ELSE /\ sfCalls' = [sfCalls EXCEPT ![f].pc = "done", ![f].walked = TRUE,
                      ![f].val = BkChecksum(sfCalls[f].ref, sfCalls[f].subdir, sfCalls[f].opts)]
               /\ sfGroup' = sfGroup \ {f}
       \/ /\ sfCalls' = [sfCalls EXCEPT ![f].pc = "done", ![f].walked = TRUE,
                                        ![f].err = "checksum"]
          /\ sfGroup' = sfGroup \ {f}
    /\ UNCHANGED <<ckPc, ckIn, ckCall, ckOut, refMeta, mdOp>>
    /\ CkOnly

\* lines 196-208
FnSetMetadata(f) ==
    /\ sfCalls[f].pc = "setmd"
    /\ mdOp' = [op |-> "set", call |-> f]
    /\ \/ /\ refMeta' = [refMeta EXCEPT ![sfCalls[f].ref] = sfCalls[f].val]
          /\ FnReturn(f, sfCalls[f].val, "", FALSE)
       \/ /\ UNCHANGED refMeta
          /\ FnReturn(f, NoDigest, "setmd", FALSE)
    /\ UNCHANGED <<ckPc, ckIn, ckCall, ckOut>>
    /\ CkOnly

\* lines 168, 211: Do hands the call's outcome to every caller waiting on it
CkReturn(c) ==
    /\ ckPc[c] = "wait"
    /\ sfCalls[ckCall[c]].pc = "done"
    /\ ckOut' = [ckOut EXCEPT ![c] =
                   [val |-> sfCalls[ckCall[c]].val, err |-> sfCalls[ckCall[c]].err]]
    /\ ckPc' = [ckPc EXCEPT ![c] = "done"]
    /\ UNCHANGED <<ckIn, ckCall, sfGroup, sfCalls, refMeta, mdOp>>
    /\ CkOnly

CkNext ==
    \/ \E c \in Callers, in \in CkInputs : CkBegin(c, in.def, in.subdir, in.opts)
    \/ \E c \in Callers : CkDo(c)
    \/ \E f \in Callers : FnFinalize(f)
    \/ \E f \in Callers : FnGetMetadata(f)
    \/ \E f \in Callers : FnWalk(f)
    \/ \E f \in Callers : FnSetMetadata(f)
    \/ \E c \in Callers : CkReturn(c)

RmIdle ==
    /\ rmHeap = <<>>
    /\ rmRefs = <<>>
    /\ rmMap = <<>>
    /\ rmSymrefs = <<>>
    /\ rmHead = [set |-> FALSE, Name |-> <<>>, SHA |-> <<>>]
    /\ rmAdds = 0
    /\ rmRes = [op |-> "none", target |-> <<>>, err |-> "", Name |-> <<>>, SHA |-> <<>>]

InitChecksum == CkInit /\ RmIdle /\ RsIdle /\ OthersIdle

SpecChecksum == InitChecksum /\ [][CkNext]_vars

----------------------------------------------------------------------------
(* Properties of the content hasher *)

InFlight(f) == sfCalls[f].pc \in {"finalize", "getmd", "walk", "setmd"}

\* (reference ID, subdir, hash of options)
ClaimKey(ref, subdir, opts) == <<ref, subdir, checksumOptsKey(opts)>>

CallClaimKey(f) == ClaimKey(sfCalls[f].ref, sfCalls[f].subdir, sfCalls[f].opts)

SameRequest(c, d) ==
    /\ ckIn[c].ref = ckIn[d].ref
    /\ ckIn[c].subdir = ckIn[d].subdir
    /\ ckIn[c].opts = ckIn[d].opts

Unfiltered(opts) == Len(opts.IncludePatterns) = 0 /\ Len(opts.ExcludePatterns) = 0

\* C1: at no time are two checksum computations in flight for the same key
\* (reference ID, subdir, hash of options).
C1_OneInFlightPerKey ==
    \A f, g \in Callers :
        (f # g /\ InFlight(f) /\ InFlight(g)) => CallClaimKey(f) # CallClaimKey(g)

\* A second request for a key arrived while the first computation for it was
\* running, and waits on it.
C1_Witness ==
    \E f, c \in Callers :
        /\ c # f
        /\ InFlight(f)
        /\ ckPc[c] = "wait"
        /\ ckCall[c] = f
        /\ ClaimKey(ckIn[c].ref, ckIn[c].subdir, ckIn[c].opts) = CallClaimKey(f)

WalksFor(c) ==
    {f \in Callers : sfCalls[f].walked /\ sfCalls[f].key = CkKeyOf(c)}

PersistableDigests(r) ==
    {BkChecksum(r, Slash, o) : o \in {p \in CkOpts : Unfiltered(p)}}

\* C4: the persisted digest of a reference is read and written only by a call
\* whose normalized subdir is "/" and whose include and exclude lists are empty.
C4_PersistOnlyUnfilteredRoot ==
    /\ mdOp.op # "none" =>
          /\ sfCalls[mdOp.call].subdir = Slash
          /\ Unfiltered(sfCalls[mdOp.call].opts)
    /\ \A r \in CkRefs :
          refMeta[r] \in {NoDigest, LocalSourceDigest(r)} \cup PersistableDigests(r)
    /\ \A f \in Callers :
          (sfCalls[f].subdir # Slash \/ ~Unfiltered(sfCalls[f].opts)) =>
              /\ sfCalls[f].pc \notin {"getmd", "setmd"}
              /\ ~sfCalls[f].fromMeta

\* A root digest was persisted, and a filtered or non-root call walked and
\* returned its digest without touching the metadata.
C4_Witness ==
    /\ mdOp.op = "set"
    /\ refMeta[sfCalls[mdOp.call].ref] = sfCalls[mdOp.call].val
    /\ sfCalls[mdOp.call].val # NoDigest
    /\ \E g \in Callers :
          /\ sfCalls[g].pc = "done"
          /\ sfCalls[g].walked
          /\ sfCalls[g].err = ""
          /\ sfCalls[g].ref = sfCalls[mdOp.call].ref
          /\ (sfCalls[g].subdir # Slash \/ ~Unfiltered(sfCalls[g].opts))

----------------------------------------------------------------------------
(* RemoteRefIndex: util/gitutil/ls_remote.go *)

MaxAdds == 3

ShaLen == 40

HexChars ==
    {"0", "1", "2", "3", "4", "5", "6", "7", "8", "9",
     "a", "b", "c", "d", "e", "f", "A", "B", "C", "D", "E", "F"}

\* a well-formed full commit identifier
IsCommitSHA(str) == Len(str) = ShaLen /\ \A i \in 1..Len(str) : str[i] \in HexChars

ShaOf(ch) == [i \in 1..ShaLen |-> ch]

Sha1 == ShaOf("1")

Sha2 == ShaOf("2")

Sha3 == ShaOf("3")

BadSha == <<"z", "z">>

S_refs == <<"r", "e", "f", "s", "/">>

S_heads == S_refs \o <<"h", "e", "a", "d", "s", "/">>

S_tags == S_refs \o <<"t", "a", "g", "s", "/">>

S_peeled == <<"^", "{", "}">>

S_remotes == S_refs \o <<"r", "e", "m", "o", "t", "e", "s", "/">>

S_HEAD == <<"H", "E", "A", "D">>

S_symref == <<"r", "e", "f", ":", " ">>

Tab == "\t"

RefLine(sha, name) == sha \o <<Tab>> \o name

SymrefLine(target, name) == S_symref \o target \o <<Tab>> \o name

\* What `git ls-remote --symref` prints, refs in ascending order
Advertisements ==
    { <<>>,
      << SymrefLine(S_heads \o <<"m">>, S_HEAD),
         RefLine(Sha1, S_HEAD),
         RefLine(Sha1, S_heads \o <<"m">>),
         RefLine(Sha2, S_tags \o <<"v">>),
         RefLine(Sha3, S_tags \o <<"v">> \o S_peeled) >>,
      << RefLine(Sha1, S_heads \o <<"x">>),
         RefLine(Sha2, S_tags \o <<"v">>),
         RefLine(Sha1, S_tags \o <<"v", "-", "x">>),
         RefLine(Sha3, S_tags \o <<"v">> \o S_peeled),
         RefLine(Sha2, S_tags \o <<"x">>) >>,
      << RefLine(BadSha, S_heads \o <<"m">>),
         RefLine(Sha3, S_tags \o <<"x">> \o S_peeled) >>,
      \* a ref whose name has the form of a commit SHA
      << RefLine(Sha2, Sha1),
         RefLine(Sha3, S_heads \o <<"m">>) >> }

NoHead == [set |-> FALSE, Name |-> <<>>, SHA |-> <<>>]

\* remote.Head as the caller pins it: nothing, a commit, a ref name, or a
\* commit given in a form that is not a full SHA
HeadOverrides ==
    { NoHead,
      [set |-> TRUE, Name |-> <<>>, SHA |-> Sha2],
      [set |-> TRUE, Name |-> S_tags \o <<"v">>, SHA |-> <<>>],
      [set |-> TRUE, Name |-> <<>>, SHA |-> BadSha] }

\* strings.Cut(line, "\t")
Cut(line) ==
    LET i == IndexOf(line, Tab, 1)
    IN  IF i = 0 THEN [ok |-> FALSE, k |-> line, v |-> <<>>]
        ELSE [ok |-> TRUE, k |-> SubSeq(line, 1, i - 1), v |-> SubSeq(line, i + 1, Len(line))]

EmptyRemote == [heap |-> <<>>, refs |-> <<>>, map |-> <<>>, symrefs |-> <<>>]

\* lines 72-88: one line of the advertisement
ParseLine(line, r) ==
    LET c == Cut(line)
    IN  IF ~c.ok THEN r
        ELSE IF HasPrefix(c.k, S_symref)
        THEN [r EXCEPT !.symrefs = (c.v :> TrimPrefix(c.k, S_symref)) @@ r.symrefs]
        ELSE [r EXCEPT !.heap = Append(r.heap, [Name |-> c.v, SHA |-> c.k]),
                       !.refs = Append(r.refs, Len(r.heap) + 1),
                       !.map = (c.v :> (Len(r.heap) + 1)) @@ r.map]

\* lines 57-95
RECURSIVE LsRemote(_, _)
LsRemote(lines, r) ==
    IF lines = <<>> THEN r
    ELSE LsRemote(Tail(lines), ParseLine(Head(lines), r))

\* withRefs leaves RefMap unset: a nil map, which reads as empty
NilMap == <<>>

NoRemote == [refs |-> <<>>, map |-> NilMap, symrefs |-> <<>>, head |-> NoHead]

\* What the last call returned: a Ref or an error (Lookup), or a derived
\* Remote and its short names (tags, branches)
RmNoRes ==
    [op |-> "none", target |-> <<>>, err |-> "", Name |-> <<>>, SHA |-> <<>>,
     patterns |-> <<>>, remote |-> NoRemote, names |-> <<>>]

RmInit ==
    \E lines \in Advertisements, head \in HeadOverrides :
        LET r == LsRemote(lines, EmptyRemote)
        IN  /\ rmHeap = r.heap
            /\ rmRefs = r.refs
            /\ rmMap = r.map
            /\ rmSymrefs = r.symrefs
            /\ rmHead = head
            /\ rmAdds = 0
            /\ rmRes = RmNoRes

\* remote.RefMap[name]: the address, 0 for nil
MapGet(name) == IF name \in DOMAIN rmMap THEN rmMap[name] ELSE 0

\* remote.Get
Get(name) == MapGet(name)

RefNames(heap, refs) == [k \in 1..Len(refs) |-> heap[refs[k]].Name]

\* sort.Search(n, func(i) { return names[i] >= name }), indices from 0
RECURSIVE SortSearch(_, _, _, _)
SortSearch(names, name, i, j) ==
    IF i < j
    THEN LET h == (i + j) \div 2
         IN  IF ~StrGeq(names[h + 1], name)
             THEN SortSearch(names, name, h + 1, j)
             ELSE SortSearch(names, name, i, h)
    ELSE i

Swap(seq, a, b) == [seq EXCEPT ![a] = seq[b], ![b] = seq[a]]

AddNames == {<<"a">>, <<"b">>, <<"c">>, <<"d">>, S_tags \o <<"v">>}

\* lines 176-189; Add assumes remote.Get(name) returns nil
Add(name, sha) ==
    /\ rmAdds < MaxAdds
    /\ Get(name) = 0
    /\ LET addr == Len(rmHeap) + 1
           heap == Append(rmHeap, [Name |-> name, SHA |-> sha])
           j == Len(rmRefs)
           appended == Append(rmRefs, addr)
           i == SortSearch(RefNames(heap, appended), name, 0, Len(appended))
       IN  /\ rmHeap' = heap
           /\ rmMap' = (name :> addr) @@ rmMap
           /\ rmRefs' = IF i # j THEN Swap(appended, i + 1, j + 1) ELSE appended
    /\ rmAdds' = rmAdds + 1
    /\ rmRes' = [RmNoRes EXCEPT !.op = "Add", !.target = name, !.SHA = sha]
    /\ UNCHANGED <<rmSymrefs, rmHead>>
    /\ RmOnly

LookupTargets ==
    { S_HEAD, <<"m">>, <<"v">>, <<"x">>, <<"z">>, Sha1,
      S_tags \o <<"v">>, S_tags \o <<"x">>, <<"t", "a", "g", "s", "/", "v">> }

\* line 231 with a fallback to the first entry of Refs
RECURSIVE FirstMatchOrAny(_)
FirstMatchOrAny(candidates) ==
    IF candidates = <<>> THEN (IF rmRefs # <<>> THEN rmRefs[1] ELSE 0)
    ELSE IF Head(candidates) # 0 THEN Head(candidates)
    ELSE FirstMatchOrAny(Tail(candidates))

\* line 231: the first candidate that is not nil, 0 when all are
RECURSIVE FirstMatch(_)
FirstMatch(candidates) ==
    IF candidates = <<>> THEN 0
    ELSE IF Head(candidates) # 0 THEN Head(candidates)
    ELSE FirstMatch(Tail(candidates))

\* line 220-231 with the tag tried before the branch
LookupCandidatesTagsFirst(targetRef, partialRef, headRef, tagRef, peeledTagRef) ==
    <<targetRef, partialRef, tagRef, headRef, peeledTagRef>>

\* line 220-231: the candidates in the order they are tried
LookupCandidates(targetRef, partialRef, headRef, tagRef, peeledTagRef) ==
    <<targetRef, partialRef, headRef, tagRef, peeledTagRef>>

\* lines 214-216: a target that is a commit SHA is returned as it is
lookupSHAFromRefMap(target) ==
    IF MapGet(target) # 0
    THEN [Name |-> rmHeap[MapGet(target)].Name, SHA |-> rmHeap[MapGet(target)].SHA]
    ELSE [Name |-> <<>>, SHA |-> target]

lookupSHA(target) == [Name |-> <<>>, SHA |-> target]

\* lines 209-213: HEAD is replaced by the name of the Head override
lookupTargetIgnoringHead(target0) == target0

lookupTarget(target0) ==
    IF target0 = S_HEAD /\ rmHead.set /\ rmHead.Name # <<>> THEN rmHead.Name ELSE target0

\* line 240: the SHA of the matched entry is not a commit SHA
invalidSHANever(sha) == FALSE

invalidSHA(sha) == ~IsCommitSHA(sha)

\* lines 248-251: a name that is a symref is replaced by its target
resolveSymrefNever(name) == name

resolveSymref(name) == IF name \in DOMAIN rmSymrefs THEN rmSymrefs[name] ELSE name

\* lines 197-258: Lookup and lookup
Lookup(target0) ==
    LET isHead == target0 = S_HEAD
        target == lookupTarget(target0)
        tagRefName == S_tags \o TrimPrefix(target, S_tags)
        peeledTagRef == MapGet(tagRefName \o S_peeled)
        \* line 226-228: the peeled entry is renamed in place
        heap == IF peeledTagRef # 0
                THEN [rmHeap EXCEPT ![peeledTagRef].Name = tagRefName]
                ELSE rmHeap
        match == FirstMatch(LookupCandidates(
                     MapGet(target),
                     MapGet(S_refs \o TrimPrefix(target, S_refs)),
                     MapGet(S_heads \o TrimPrefix(target, S_heads)),
                     MapGet(tagRefName),
                     peeledTagRef))
        name == resolveSymref(heap[match].Name)
        sha == IF isHead /\ rmHead.set /\ rmHead.SHA # <<>> THEN rmHead.SHA ELSE heap[match].SHA
    IN  /\ IF IsCommitSHA(target)
           THEN /\ rmRes' = [RmNoRes EXCEPT !.op = "Lookup", !.target = target0,
                                            !.Name = lookupSHA(target).Name,
                                            !.SHA = lookupSHA(target).SHA]
                /\ UNCHANGED rmHeap
           ELSE /\ rmHeap' = heap
                /\ rmRes' =
                     IF match = 0
                     THEN [RmNoRes EXCEPT !.op = "Lookup", !.target = target0, !.err = "notfound"]
                     ELSE IF invalidSHA(heap[match].SHA)
                     THEN [RmNoRes EXCEPT !.op = "Lookup", !.target = target0, !.err = "invalid"]
                     ELSE [RmNoRes EXCEPT !.op = "Lookup", !.target = target0,
                                          !.Name = name, !.SHA = sha]
        /\ UNCHANGED <<rmRefs, rmMap, rmSymrefs, rmHead, rmAdds>>
        /\ RmOnly

\* The Remote the calls are made on
This == [refs |-> rmRefs, map |-> rmMap, symrefs |-> rmSymrefs, head |-> rmHead]

\* lines 108-114: a Remote of the given refs that shares Symrefs and Head;
\* RefMap is not set
withRefs(r, refs) ==
    [refs |-> refs, map |-> NilMap, symrefs |-> r.symrefs, head |-> r.head]

\* lines 116-128
Tags(r) ==
    withRefs(r, SelectSeq(r.refs, LAMBDA a :
        HasPrefix(rmHeap[a].Name, S_tags) /\ ~HasSuffix(rmHeap[a].Name, S_peeled)))

\* lines 130-139
Branches(r) ==
    withRefs(r, SelectSeq(r.refs, LAMBDA a : HasPrefix(rmHeap[a].Name, S_heads)))

\* A glob with at most one trailing "*", which does not cross a "/"
GlobMatch(pattern, str) ==
    IF pattern # <<>> /\ pattern[Len(pattern)] = "*"
    THEN LET pre == SubSeq(pattern, 1, Len(pattern) - 1)
         IN  /\ HasPrefix(str, pre)
             /\ \A i \in (Len(pre) + 1)..Len(str) : str[i] # "/"
    ELSE pattern = str

\* gitTailMatch: the pattern matches the whole name or a trailing part of
\* its path
gitTailMatch(pattern, name) ==
    \E i \in 1..Len(name) :
        /\ (i = 1 \/ name[i - 1] = "/")
        /\ GlobMatch(pattern, SubSeq(name, i, Len(name)))

\* lines 141-160: no pattern is the Remote itself
Filter(r, patterns) ==
    IF Len(patterns) = 0 THEN r
    ELSE withRefs(r, SelectSeq(r.refs, LAMBDA a :
            \E k \in 1..Len(patterns) : gitTailMatch(patterns[k], rmHeap[a].Name)))

\* lines 34-51
ShortName(name) ==
    IF IsCommitSHA(name) THEN name
    ELSE IF HasPrefix(name, S_heads) THEN TrimPrefix(name, S_heads)
    ELSE IF HasPrefix(name, S_tags) THEN TrimPrefix(name, S_tags)
    ELSE IF HasPrefix(name, S_remotes) THEN TrimPrefix(name, S_remotes)
    ELSE TrimPrefix(name, S_refs)

\* lines 162-168
ShortNames(r) == [k \in 1..Len(r.refs) |-> ShortName(rmHeap[r.refs[k]].Name)]

\* The patterns a caller gives: none, the version tags, a leaf name
PatternSets ==
    { <<>>, << S_tags \o <<"v", "*">> >>, << <<"x">> >> }

\* gitSchema.tags on a resolved repository: Filter, Tags, ShortNames
tags(patterns) ==
    /\ rmRes' = [RmNoRes EXCEPT !.op = "tags", !.patterns = patterns,
                                !.remote = Tags(Filter(This, patterns)),
                                !.names = ShortNames(Tags(Filter(This, patterns)))]
    /\ UNCHANGED <<rmHeap, rmRefs, rmMap, rmSymrefs, rmHead, rmAdds>>
    /\ RmOnly

\* gitSchema.branches on a resolved repository: Filter, Branches, ShortNames
branches(patterns) ==
    /\ rmRes' = [RmNoRes EXCEPT !.op = "branches", !.patterns = patterns,
                                !.remote = Branches(Filter(This, patterns)),
                                !.names = ShortNames(Branches(Filter(This, patterns)))]
    /\ UNCHANGED <<rmHeap, rmRefs, rmMap, rmSymrefs, rmHead, rmAdds>>
    /\ RmOnly

RmNext ==
    \/ \E name \in AddNames, sha \in {Sha1} : Add(name, sha)
    \/ \E target \in LookupTargets : Lookup(target)
    \/ \E patterns \in PatternSets : tags(patterns)
    \/ \E patterns \in PatternSets : branches(patterns)

CkIdle ==
    /\ ckPc = [c \in Callers |-> "idle"]
    /\ ckIn = [c \in Callers |-> NoIn]
    /\ ckCall = [c \in Callers |-> 0]
    /\ ckOut = [c \in Callers |-> NoOut]
    /\ sfGroup = {}
    /\ sfCalls = [c \in Callers |-> NoCall]
    /\ refMeta = [r \in CkRefs |-> NoDigest]
    /\ mdOp = [op |-> "none", call |-> 0]

InitRemote == RmInit /\ CkIdle /\ RsIdle /\ OthersIdle

SpecRemote == InitRemote /\ [][RmNext]_vars

----------------------------------------------------------------------------
(* Properties of the remote ref index *)

\* every Ref still carries the name it is filed under in RefMap
NamesAsFiled == \A n \in DOMAIN rmMap : rmHeap[rmMap[n]].Name = n

\* C5: when the advertisement holds refs/tags/T and refs/tags/T^{} and no
\* literal, refs/ or branch entry for T, Lookup(T) returns Name = refs/tags/T
\* and the SHA of the peeled entry.
C5_LookupTagReturnsPeeledSha ==
    LET T == rmRes.target
    IN  ( /\ rmRes.op = "Lookup"
          /\ T # S_HEAD
          /\ ~IsCommitSHA(T)
          /\ ~HasPrefix(T, S_refs)
          /\ Get(S_tags \o T) # 0
          /\ Get(S_tags \o T \o S_peeled) # 0
          /\ Get(T) = 0 /\ Get(S_refs \o T) = 0 /\ Get(S_heads \o T) = 0 )
        => /\ rmRes.err = ""
           /\ rmRes.Name = S_tags \o T
           /\ rmRes.SHA = rmHeap[Get(S_tags \o T \o S_peeled)].SHA

RECURSIVE IsSorted(_)
IsSorted(names) ==
    \/ Len(names) <= 1
    \/ /\ ~StrLess(names[2], names[1])
       /\ IsSorted(Tail(names))

\* C6: after any sequence of Add calls with distinct names not already
\* present, from an empty or sorted Remote, Refs is in non-decreasing name order.
C6_RefsSortedAfterAdds ==
    NamesAsFiled => IsSorted(RefNames(rmHeap, rmRefs))

\* C20: a Lookup whose target is a well-formed full commit SHA returns
\* Name "" and the target as SHA, with no error, and leaves the index as it
\* was, whatever the Remote holds
C20_LookupOfShaReturnsIt ==
    [][ (rmRes'.op = "Lookup" /\ IsCommitSHA(rmRes'.target)) =>
            /\ rmRes'.err = ""
            /\ rmRes'.Name = <<>>
            /\ rmRes'.SHA = rmRes'.target
            /\ rmHeap' = rmHeap
            /\ rmMap' = rmMap ]_vars

\* the Remote holds a ref whose name is the SHA that was looked up
C20_Witness ==
    /\ rmRes.op = "Lookup"
    /\ IsCommitSHA(rmRes.target)
    /\ Get(rmRes.target) # 0
    /\ rmHeap[Get(rmRes.target)].SHA # rmRes.target
    /\ rmRes.Name = <<>>
    /\ rmRes.SHA = rmRes.target

----------------------------------------------------------------------------
(* The resolver of the git schema (core/schema/git.go)                      *)
(*                                                                          *)
(* A URL string is a sequence of tokens ("https", "://", "git", "@" and the *)
(* host/path), so that prefixing a scheme, parsing and printing are         *)
(* computed.  A digest is the list of the strings that are hashed.          *)

\* Bound: the number of requests clients make in the world where two clients
\* share the engine's cache
MaxOps == 2

\* Bound: the number of calls the engine nests (the client's request, tree,
\* the ref's __resolve and the chain of the repository's __resolve)
MaxDepth == 8

Clients == {"A", "B"}

T_sep == "://"

T_at == "@"

HTTPSProtocol == "https"

SSHProtocol == "ssh"

\* The remotes: R requires credentials, P is public
RawR == <<"R">>

RawP == <<"P">>

\* remote.URL == nil
NoURL == [Scheme |-> "", User |-> "", Raw |-> <<>>]

\* gitutil.ParseURL: a string without "scheme://" is ErrUnknownProtocol, and
\* git() then leaves the URL nil
ParseURL(str) ==
    IF Len(str) >= 3 /\ str[2] = T_sep /\ str[1] \in {HTTPSProtocol, SSHProtocol}
    THEN IF Len(str) >= 5 /\ str[4] = T_at
         THEN [Scheme |-> str[1], User |-> str[3], Raw |-> SubSeq(str, 5, Len(str))]
         ELSE [Scheme |-> str[1], User |-> "", Raw |-> SubSeq(str, 3, Len(str))]
    ELSE NoURL

\* GitURL.String
URLString(u) ==
    <<u.Scheme, T_sep>> \o (IF u.User # "" THEN <<u.User, T_at>> ELSE <<>>) \o u.Raw

\* GitURL.Remote
URLRemote(u) == URLString(u)

HttpsOf(rawURL) == <<HTTPSProtocol, T_sep>> \o rawURL

SshGitOf(rawURL) == <<SSHProtocol, T_sep, "git", T_at>> \o rawURL

\* The sockets and secrets of the clients: a client's agent socket, and the
\* secret holding its token
SockOf(c) == "sock" \o c

TokOf(c) == "tok" \o c

\* Names of refs and commits; X is a commit of R only, Y a commit of P only
S_main == <<"m", "a", "i", "n">>

CommitX == Sha1

CommitY == Sha2

\* The arguments of git(), as they stand in the ID of the call ("": not given)
PlainArgs(url) ==
    [url |-> url, keepGitDir |-> "unset", sshKnownHosts |-> "",
     sshAuthSocket |-> "", httpAuthUsername |-> "", httpAuthToken |-> "",
     httpAuthHeader |-> "", commit |-> <<>>, ref |-> <<>>,
     experimentalServiceHost |-> ""]

FormatBool(b) == IF b THEN "true" ELSE "false"

\* The digest git() gives its result
gitDigest(args, discardGitDir) ==
    args.url \o <<FormatBool(discardGitDir)>>
    \o (IF args.sshAuthSocket # "" THEN <<"sshAuthSock", args.sshAuthSocket>> ELSE <<>>)
    \o (IF args.httpAuthToken # "" THEN <<"authToken", args.httpAuthToken>> ELSE <<>>)
    \o (IF args.httpAuthHeader # "" THEN <<"authHeader", args.httpAuthHeader>> ELSE <<>>)
    \o (IF args.ref # <<>> \/ args.commit # <<>>
        THEN <<"head-name:">> \o args.ref \o <<"head-sha:">> \o args.commit ELSE <<>>)

\* git(): the unresolved repository built from the arguments
git(args) ==
    LET discardGitDir == IF args.keepGitDir = "false" THEN TRUE ELSE FALSE
    IN  [kind |-> "repo",
         Backend |-> "remote",
         args |-> args,
         URL |-> ParseURL(args.url),
         SSHKnownHosts |-> args.sshKnownHosts,
         SSHAuthSocket |-> args.sshAuthSocket,
         AuthUsername |-> args.httpAuthUsername,
         AuthToken |-> args.httpAuthToken,
         AuthHeader |-> args.httpAuthHeader,
         Services |-> args.experimentalServiceHost,
         PinnedHead |-> [Name |-> args.ref, SHA |-> args.commit],
         DiscardGitDir |-> discardGitDir,
         Resolved |-> FALSE,
         digest |-> gitDigest(args, discardGitDir)]

\* A repository on a directory of the engine (core.LocalGitRepository): no
\* URL and no credentials
LocalRepo ==
    [git(PlainArgs(<<>>)) EXCEPT !.Backend = "local", !.digest = <<"local", "dir">>]

\* ref(): a ref of a repository, not yet resolved; its identity is that of
\* the call
ref(repo, name, commit) ==
    [kind |-> "ref",
     Repo |-> repo,
     Ref |-> [Name |-> name, SHA |-> commit],
     Resolved |-> FALSE,
     digest |-> repo.digest \o <<"ref">> \o name \o <<"commit">> \o commit]

hasExplicitAuthNever(remote) == FALSE

hasExplicitAuth(remote) ==
    remote.SSHAuthSocket # "" \/ remote.AuthToken # "" \/ remote.AuthHeader # ""

computeCanonicalRepoDigestWithSecretIDs(remote, discardGitDir) ==
    <<"gitrepo/v1">>
    \o (IF remote.URL # NoURL THEN URLRemote(remote.URL) ELSE <<>>)
    \o (IF remote.SSHAuthSocket # "" THEN <<"sshAuthSock", remote.SSHAuthSocket>> ELSE <<>>)
    \o (IF remote.AuthToken # "" THEN <<"authToken", remote.AuthToken>> ELSE <<>>)
    \o (IF remote.AuthHeader # "" THEN <<"authHeader", remote.AuthHeader>> ELSE <<>>)
    \o (IF remote.AuthUsername # "" THEN <<"authUsername:", remote.AuthUsername>> ELSE <<>>)
    \o (IF discardGitDir THEN <<"discardGitDir">> ELSE <<>>)

computeCanonicalRepoDigest(remote, discardGitDir) ==
    <<"gitrepo/v1">>
    \o (IF remote.URL # NoURL THEN URLRemote(remote.URL) ELSE <<>>)
    \o (IF remote.SSHAuthSocket # "" THEN <<"sshAuthSock:true">> ELSE <<>>)
    \o (IF remote.AuthToken # "" THEN <<"authToken:true">> ELSE <<>>)
    \o (IF remote.AuthHeader # "" THEN <<"authHeader:true">> ELSE <<>>)
    \o (IF remote.AuthUsername # "" THEN <<"authUsername:", remote.AuthUsername>> ELSE <<>>)
    \o (IF discardGitDir THEN <<"discardGitDir">> ELSE <<>>)

computeCanonicalRefDigestWithRepo(r) ==
    <<"gitref/v1">>
    \o r.Repo.digest
    \o (IF r.Ref.Name # <<>> THEN <<"name:">> \o r.Ref.Name ELSE <<>>)
    \o (IF r.Ref.SHA # <<>> THEN <<"sha:">> \o r.Ref.SHA ELSE <<>>)

computeCanonicalRefDigest(r) ==
    <<"gitref/v1">>
    \o (IF r.Ref.Name # <<>> THEN <<"name:">> \o r.Ref.Name ELSE <<>>)
    \o (IF r.Ref.SHA # <<>> THEN <<"sha:">> \o r.Ref.SHA ELSE <<>>)

NoAuthArgs == [sshAuthSocket |-> "", httpAuthToken |-> "", httpAuthUsername |-> ""]

\* buildRedirectArgs: the arguments of the git() call of a redirect
buildRedirectArgs(parent, remote, url, authArgs) ==
    LET own == authArgs = NoAuthArgs
    IN  [url |-> url,
         sshAuthSocket |-> IF own THEN remote.SSHAuthSocket ELSE authArgs.sshAuthSocket,
         httpAuthToken |-> IF own THEN remote.AuthToken ELSE authArgs.httpAuthToken,
         httpAuthHeader |-> IF own THEN remote.AuthHeader ELSE "",
         httpAuthUsername |-> IF own THEN remote.AuthUsername ELSE authArgs.httpAuthUsername,
         keepGitDir |-> IF parent.args.keepGitDir = "true" THEN "true" ELSE "unset",
         sshKnownHosts |-> parent.args.sshKnownHosts,
         commit |-> parent.args.commit,
         ref |-> parent.args.ref,
         experimentalServiceHost |-> ""]

(* The world outside the resolver.  It is chosen when the engine starts and *)
(* does not change: how each remote answers ls-remote, what the client's    *)
(* metadata and credential store hold, and what the remotes contain.        *)

\* errors: auth tells whether errors.Is(err, gitutil.ErrGitAuthFailed)
\* An error message is the list of its parts
NoErr == [auth |-> FALSE, msg |-> <<>>]

Err(auth, msg) == [auth |-> auth, msg |-> msg]

\* The world of one client A and one remote R, in every combination of:
\* how R answers on https and on ssh, which of A's credentials R accepts,
\* A's agent socket, A's credential store, and whether A is the client that
\* authored the surrounding request (parentOf: the nearest client that is
\* not a module) or a module called by B, whose store holds a credential
WideWorlds ==
    { [world |-> "wide", maxOps |-> 1,
       https |-> [r \in {RawR, RawP} |-> IF r = RawR THEN h ELSE "public"],
       ssh |-> [r \in {RawR, RawP} |-> IF r = RawR THEN s ELSE "down"],
       tokens |-> [r \in {RawR, RawP} |-> IF r = RawR THEN t ELSE {}],
       keys |-> [r \in {RawR, RawP} |-> IF r = RawR THEN k ELSE {}],
       agent |-> [c \in Clients |-> IF c = "A" THEN a ELSE "none"],
       store |-> [c \in Clients |-> IF c = "A" THEN st ELSE "cred"],
       parentOf |-> [c \in Clients |-> IF c = "A" THEN p ELSE c],
       heads |-> [r \in {RawR, RawP} |-> IF r = RawR THEN CommitX ELSE CommitY]]
      : h \in {"public", "private", "down"}, s \in {"up", "down"},
        t \in {{}, {TokOf("A")}}, k \in {{}, {SockOf("A")}},
        a \in {"none", "broken", "ok"},
        st \in {"none", "error", "cred", "creduser"}, p \in Clients }

\* The world of two clients sharing the engine: R is private and accepts
\* A's token, which A's credential store holds; B has no credentials
SharedWorlds ==
    { [world |-> "shared", maxOps |-> MaxOps,
       https |-> [r \in {RawR, RawP} |-> IF r = RawR THEN "private" ELSE "public"],
       ssh |-> [r \in {RawR, RawP} |-> "down"],
       tokens |-> [r \in {RawR, RawP} |-> IF r = RawR THEN {TokOf("A")} ELSE {}],
       keys |-> [r \in {RawR, RawP} |-> {}],
       agent |-> [c \in Clients |-> "none"],
       store |-> [c \in Clients |-> IF c = "A" THEN "cred" ELSE "none"],
       parentOf |-> [c \in Clients |-> c],
       heads |-> [r \in {RawR, RawP} |-> IF r = RawR THEN CommitX ELSE CommitY]] }

\* core.GitRepository.Resolve on a remote: git ls-remote with the
\* credentials attached to the descriptor
LsRemoteOutcome(env, remote) ==
    LET r == remote.URL.Raw
    IN  IF remote.URL.Scheme = HTTPSProtocol
        THEN CASE env.https[r] = "down" -> "other"
               [] env.https[r] = "public" -> "ok"
               [] OTHER -> IF remote.AuthToken \in env.tokens[r]
                              \/ remote.AuthHeader \in env.tokens[r]
                           THEN "ok" ELSE "auth"
        ELSE CASE env.ssh[r] = "down" -> "other"
               [] OTHER -> IF remote.SSHAuthSocket \in env.keys[r]
                           THEN "ok" ELSE "auth"

NoCredential == [token |-> "", username |-> ""]

\* bk.GetCredential on the store of client p and the secret made of the
\* password: nothing when the lookup fails or the password is empty
StoreLookupIgnoringError(env, p) ==
    CASE env.store[p] = "cred" -> [token |-> TokOf(p), username |-> ""]
      [] env.store[p] = "creduser" -> [token |-> TokOf(p), username |-> "u"]
      [] env.store[p] = "error" -> [token |-> TokOf(p), username |-> ""]
      [] OTHER -> NoCredential

StoreLookup(env, p) ==
    CASE env.store[p] = "cred" -> [token |-> TokOf(p), username |-> ""]
      [] env.store[p] = "creduser" -> [token |-> TokOf(p), username |-> "u"]
      [] OTHER -> NoCredential

\* Whether getCredentialFromStore reaches bk.GetCredential:
\* clientMD.ClientID = parentMD.ClientID
QueriesStoreAlways(env, c) == TRUE

QueriesStore(env, c) == env.parentOf[c] = c

\* getCredentialFromStore: nothing when the request comes from another
\* client than the author of the surrounding request; otherwise what the
\* author's store gives
getCredentialFromStore(env, c) ==
    IF QueriesStore(env, c) THEN StoreLookup(env, env.parentOf[c]) ELSE NoCredential

\* core.GitRef.Resolve: Remote.Lookup of the ref's name in the index of the
\* resolved repository; a commit SHA is returned as it is, without the index
RefLookup(env, repo, name) ==
    CASE IsCommitSHA(name) -> [err |-> NoErr, Name |-> <<>>, SHA |-> name]
      [] name = S_main \/ name = S_heads \o S_main ->
            [err |-> NoErr, Name |-> S_heads \o S_main, SHA |-> env.heads[repo.URL.Raw]]
      [] OTHER -> [err |-> Err(FALSE, <<"repository does not contain ref">>),
                   Name |-> <<>>, SHA |-> <<>>]

\* tree: the digest given to the directory, from the content digest (which
\* excludes .git) and the scope markers of the arguments
TreeDigestIgnoringDepth(contentDigest, targs) ==
    contentDigest
    \o (IF targs.discardGitDir THEN <<"discardGitDir:true">> ELSE <<>>)

TreeDigest(contentDigest, targs) ==
    contentDigest
    \o (IF targs.discardGitDir THEN <<"discardGitDir:true">> ELSE <<>>)
    \o (IF targs.depth # 1 THEN <<"depth:", ToString(targs.depth)>> ELSE <<>>)

\* core.GitRef.Tree: the fetch of the commit from the ref's repository with
\* the repository's credentials; the remote must accept them and hold the
\* commit
FetchTree(env, r, targs) ==
    IF LsRemoteOutcome(env, r.Repo) = "ok" /\ r.Ref.SHA = env.heads[r.Repo.URL.Raw]
    THEN [err |-> NoErr,
          val |-> [kind |-> "dir", content |-> r.Ref.SHA, origin |-> r.Repo.URL.Raw,
                   digest |-> TreeDigest(<<"content:">> \o r.Ref.SHA, targs)]]
    ELSE [err |-> Err(LsRemoteOutcome(env, r.Repo) = "auth", <<"failed to fetch">>), val |-> [kind |-> "nil"]]

(* The engine: srv.Select evaluates a field on a receiver.  A call whose    *)
(* key is in the cache returns the cached result without running the        *)
(* resolver; otherwise the resolver runs in a new frame and its result, if  *)
(* it is not an error, is cached under the key.                             *)

Nil == [kind |-> "nil"]

NoRet == [set |-> FALSE, err |-> NoErr, val |-> Nil]

Ret(err, val) == [set |-> TRUE, err |-> err, val |-> val]

\* treeArgs: discardGitDir false, depth 1
DefaultTreeArgs == [discardGitDir |-> FALSE, depth |-> 1]

\* treeArgs: the defaults, discardGitDir alone, a depth alone
TreeArgs ==
    {DefaultTreeArgs, [discardGitDir |-> TRUE, depth |-> 1], [discardGitDir |-> FALSE, depth |-> 2]}

\* The fields installed with dagql.CachePerClient
CachePerClient(fn) == fn \in {"repoResolve", "refResolve"}

CacheKey(fn, recv, targs, c) ==
    [recv |-> recv.digest, field |-> fn, args |-> targs,
     client |-> IF CachePerClient(fn) THEN c ELSE ""]

Frame(fn, recv, key, targs) ==
    [fn |-> fn, obj |-> recv, pc |-> "start", cand |-> 0, ret |-> NoRet,
     key |-> key, targs |-> targs]

\* The client's side of a request
RootFrame ==
    [fn |-> "client", obj |-> Nil, pc |-> "request", cand |-> 0, ret |-> NoRet,
     key |-> CacheKey("client", [digest |-> <<>>], DefaultTreeArgs, ""),
     targs |-> DefaultTreeArgs]

\* An entry of the log; res is the identity of the value a call returned
Ev(ev, depth, fn, why, obj, err) ==
    [ev |-> ev, depth |-> depth, fn |-> fn, why |-> why, obj |-> obj, err |-> err,
     res |-> <<>>]

EvDone(depth, fn, why, obj, r) ==
    [ev |-> "done", depth |-> depth, fn |-> fn, why |-> why, obj |-> obj, err |-> r.err,
     res |-> IF r.val = Nil THEN <<>> ELSE r.val.digest]

Top == rsStack[Len(rsStack)]

Running(fn, pcs) ==
    /\ Len(rsStack) >= 2
    /\ Top.fn = fn
    /\ Top.pc \in pcs

\* srv.Select of field fn on recv, issued by the frame on top of st, which
\* goes on at pcNext when the call has returned
RsCall(st, lg, pcNext, fn, recv, targs, why, c) ==
    LET d == Len(st)
        key == CacheKey(fn, recv, targs, c)
        hits == {e \in rsCache : e.key = key}
        sel == Ev("select", d, fn, why, recv, NoErr)
    IN  /\ d < MaxDepth
        /\ rsCache' = rsCache
        /\ IF hits # {}
           THEN LET r == Ret(NoErr, (CHOOSE e \in hits : TRUE).val)
                IN  /\ rsStack' = [st EXCEPT ![d] = [@ EXCEPT !.pc = pcNext, !.ret = r]]
                    /\ rsLog' = lg \o <<sel, EvDone(d + 1, fn, "cached", recv, r)>>
           ELSE /\ rsStack' = Append([st EXCEPT ![d] = [@ EXCEPT !.pc = pcNext, !.ret = NoRet]],
                                     Frame(fn, recv, key, targs))
                /\ rsLog' = Append(lg, sel)

\* The resolver on top of the stack returns res to the frame that called it;
\* a result that is not an error is cached under the key of the call, with
\* the receiver of the call
RsReturnOn(st, evs, res) ==
    LET d == Len(st)
        f == st[d]
    IN  /\ rsStack' = [SubSeq(st, 1, d - 1) EXCEPT ![d - 1].ret = res]
        /\ rsCache' = IF res.err = NoErr
                      THEN rsCache \cup {[key |-> f.key, recv |-> f.obj, val |-> res.val]}
                      ELSE rsCache
        /\ rsLog' = rsLog \o evs \o <<EvDone(d, f.fn, "ran", f.obj, res)>>

RsReturn(evs, res) == RsReturnOn(rsStack, evs, res)

(* The requests of the clients *)

\* What the caller may pass next to the URL and the credentials
PeripheralArgs ==
    { [keepGitDir |-> "unset", sshKnownHosts |-> "", httpAuthUsername |-> "",
       commit |-> <<>>, ref |-> <<>>, experimentalServiceHost |-> ""],
      [keepGitDir |-> "false", sshKnownHosts |-> "", httpAuthUsername |-> "",
       commit |-> <<>>, ref |-> <<>>, experimentalServiceHost |-> ""],
      [keepGitDir |-> "false", sshKnownHosts |-> "kh", httpAuthUsername |-> "u",
       commit |-> CommitX, ref |-> S_main, experimentalServiceHost |-> "svc"] }

\* keepGitDir given alone, or not at all
KeepGitDirArgs == {p \in PeripheralArgs : p.sshKnownHosts = ""}

AuthArgs(c) ==
    { [sshAuthSocket |-> "", httpAuthToken |-> "", httpAuthHeader |-> ""],
      [sshAuthSocket |-> SockOf(c), httpAuthToken |-> "", httpAuthHeader |-> ""],
      [sshAuthSocket |-> "", httpAuthToken |-> TokOf(c), httpAuthHeader |-> ""],
      [sshAuthSocket |-> "", httpAuthToken |-> "", httpAuthHeader |-> TokOf(c)],
      [sshAuthSocket |-> SockOf(c), httpAuthToken |-> TokOf(c), httpAuthHeader |-> ""] }

URLArgs(raw) ==
    {raw, HttpsOf(raw), SshGitOf(raw), <<SSHProtocol, T_sep>> \o raw}

GitArgs(url, a, p) ==
    [url |-> url, keepGitDir |-> p.keepGitDir, sshKnownHosts |-> p.sshKnownHosts,
     sshAuthSocket |-> a.sshAuthSocket, httpAuthUsername |-> p.httpAuthUsername,
     httpAuthToken |-> a.httpAuthToken, httpAuthHeader |-> a.httpAuthHeader,
     commit |-> p.commit, ref |-> p.ref,
     experimentalServiceHost |-> p.experimentalServiceHost]

Requests(world, c) ==
    IF world = "wide"
    THEN IF c # "A" THEN {}
         ELSE { [op |-> "repoResolve", recv |-> git(GitArgs(u, a, p)), targs |-> DefaultTreeArgs]
                : u \in URLArgs(RawR), a \in AuthArgs(c), p \in PeripheralArgs }
    ELSE { [op |-> "tree",
            recv |-> ref(git([PlainArgs(HttpsOf(r)) EXCEPT !.httpAuthToken = t]), n, <<>>),
            targs |-> DefaultTreeArgs]
           : r \in {RawR, RawP}, n \in {S_main, CommitX},
             t \in IF c = "A" THEN {"", TokOf(c)} ELSE {""} }
         \cup
         { [op |-> "tree",
            recv |-> ref(git([PlainArgs(HttpsOf(RawR)) EXCEPT !.httpAuthToken = TokOf(c)]),
                         S_main, <<>>),
            targs |-> ta]
           : ta \in IF c = "A" THEN TreeArgs ELSE {} }
         \cup
         { [op |-> "tree",
            recv |-> ref(git([PlainArgs(HttpsOf(RawR)) EXCEPT !.httpAuthHeader = h]),
                         S_main, <<>>),
            targs |-> DefaultTreeArgs]
           : h \in IF c = "A" THEN {TokOf(c)} ELSE {} }
         \cup
         { [op |-> "repoResolve",
            recv |-> git(GitArgs(u, [sshAuthSocket |-> "", httpAuthToken |-> t,
                                     httpAuthHeader |-> ""], p)),
            targs |-> DefaultTreeArgs]
           : u \in {RawP, HttpsOf(RawP)}, t \in {"", TokOf(c)}, p \in KeepGitDirArgs }
         \cup
         { [op |-> "repoResolve", recv |-> LocalRepo, targs |-> DefaultTreeArgs] }
         \cup
         { [op |-> "commonAncestor",
            recv |-> ref(git(PlainArgs(HttpsOf(r))), S_main, <<>>),
            targs |-> [other |-> ref(git(PlainArgs(HttpsOf(o))), S_main, <<>>)]]
           : r \in {RawR, RawP}, o \in {RawR, RawP} }

AllRequests == UNION {Requests(w, c) : w \in {"wide", "shared"}, c \in Clients}

(* The resolvers.  Each action is one run of the resolver on top of the     *)
(* stack, up to its next srv.Select or to its return.                       *)

RsInitIn(worlds) ==
    /\ rsEnv \in worlds
    /\ rsCur = NoReq
    /\ rsStack = <<>>
    /\ rsCache = {}
    /\ rsLog = <<>>
    /\ rsValid = {}
    /\ rsOut = NoDelivery
    /\ rsOps = 0

RsInit == RsInitIn(WideWorlds \cup SharedWorlds)

\* A client asks the engine for a field of an object it has built
RsStart(c, rq) ==
    /\ rsStack = <<>>
    /\ rsOps < rsEnv.maxOps
    /\ rq \in Requests(rsEnv.world, c)
    /\ rsCur' = [op |-> rq.op, client |-> c, recv |-> rq.recv]
    /\ rsOps' = rsOps + 1
    /\ rsOut' = NoDelivery
    /\ RsCall(<<RootFrame>>, <<>>, "deliver", rq.op, rq.recv, rq.targs, "request", c)
    /\ UNCHANGED <<rsEnv, rsValid>>
    /\ RsOnly

\* The engine hands the result to the client
RsDeliver ==
    /\ Len(rsStack) = 1
    /\ rsStack[1].ret.set
    /\ rsOut' = [client |-> rsCur.client, op |-> rsCur.op,
                 err |-> rsStack[1].ret.err, val |-> rsStack[1].ret.val]
    /\ rsStack' = <<>>
    /\ UNCHANGED <<rsEnv, rsCur, rsCache, rsLog, rsValid, rsOps>>
    /\ RsOnly

\* resolveAmbiguousURLViaRedirect: the scheme an attached credential implies
InferredURLPreferringHTTPS(remote, rawURL) ==
    IF remote.AuthToken # "" \/ remote.AuthHeader # "" \/ remote.SSHAuthSocket = ""
    THEN HttpsOf(rawURL) ELSE SshGitOf(rawURL)

InferredURL(remote, rawURL) ==
    IF remote.SSHAuthSocket # "" THEN SshGitOf(rawURL) ELSE HttpsOf(rawURL)

\* candidates of resolveAmbiguousURLViaRedirect
CandidatesSSHFirst(rawURL) == <<SshGitOf(rawURL), HttpsOf(rawURL)>>

Candidates(rawURL) == <<HttpsOf(rawURL), SshGitOf(rawURL)>>

\* errors.Is(err, gitutil.ErrGitAuthFailed): the next candidate is tried
TryNextOnAnyError(err) == err # NoErr

TryNext(err) == err.auth

\* The error after the last candidate: fmt.Errorf without %w
ErrTriedAll ==
    Err(FALSE, <<"failed to resolve git URL: tried ", HTTPSProtocol, " and ", SSHProtocol>>)

\* dagql.NewObjectResultForCurrentID: the result has the digest of the call
CurrentID(recv, fn) == recv.digest \o <<".", fn>>

\* repoResolve on a repository that is not remote: a clone marked resolved
RepoResolveLocal ==
    /\ Running("repoResolve", {"start"})
    /\ Top.obj.Backend # "remote"
    /\ RsReturn(<<>>, Ret(NoErr, [Top.obj EXCEPT !.Resolved = TRUE,
                                                 !.digest = CurrentID(Top.obj, "__resolve")]))
    /\ UNCHANGED <<rsEnv, rsCur, rsValid, rsOut, rsOps>>
    /\ RsOnly

\* The leaf case with the result of Resolve ignored
RsLeafUnchecked(parent, evs) ==
    LET out == LsRemoteOutcome(rsEnv, parent)
        resolved == [parent EXCEPT !.Resolved = TRUE,
                        !.digest = computeCanonicalRepoDigest(parent, parent.DiscardGitDir)]
        ls == Ev("lsremote", Len(rsStack), "repoResolve", out, parent, NoErr)
    IN  /\ RsReturn(evs \o <<ls>>, Ret(NoErr, resolved))
        /\ rsValid' = rsValid

\* The leaf case of repoResolve: ls-remote with what the descriptor holds,
\* then Resolved and the canonical digest
RsLeaf(parent, evs) ==
    LET out == LsRemoteOutcome(rsEnv, parent)
        resolved == [parent EXCEPT !.Resolved = TRUE,
                        !.digest = computeCanonicalRepoDigest(parent, parent.DiscardGitDir)]
        ls == Ev("lsremote", Len(rsStack), "repoResolve", out, parent, NoErr)
    IN  /\ RsReturn(evs \o <<ls>>,
                    IF out = "ok" THEN Ret(NoErr, resolved)
                    ELSE Ret(Err(out = "auth", <<"git ls-remote failed">>), Nil))
        /\ rsValid' = IF out = "ok"
                      THEN rsValid \cup {<<rsCur.client, parent.URL.Raw>>}
                      ELSE rsValid

\* repoResolve, case 1: resolveAmbiguousURLViaRedirect up to its first Select
RepoResolveAmbiguous ==
    /\ Running("repoResolve", {"start"})
    /\ Top.obj.Backend = "remote"
    /\ Top.obj.URL = NoURL
    /\ LET parent == Top.obj
           rawURL == parent.args.url
           d == Len(rsStack)
           redirectToURL(url) ==
               RsCall(rsStack, rsLog, "redirect", "repoResolve",
                      git(buildRedirectArgs(parent, parent, url, NoAuthArgs)),
                      DefaultTreeArgs, "redirect", rsCur.client)
       IN  IF hasExplicitAuth(parent)
           THEN redirectToURL(InferredURL(parent, rawURL))
           ELSE RsCall([rsStack EXCEPT ![d].cand = 1], rsLog, "cand", "repoResolve",
                       git(buildRedirectArgs(parent, parent, Candidates(rawURL)[1], NoAuthArgs)),
                       DefaultTreeArgs, "candidate", rsCur.client)
    /\ UNCHANGED <<rsEnv, rsCur, rsValid, rsOut, rsOps>>
    /\ RsOnly

\* resolveAmbiguousURLViaRedirect: a candidate has returned
RepoResolveCandidate ==
    /\ Running("repoResolve", {"cand"})
    /\ Top.ret.set
    /\ LET parent == Top.obj
           rawURL == parent.args.url
           d == Len(rsStack)
           i == Top.cand
           r == Top.ret
       IN  IF r.err = NoErr
           THEN RsReturn(<<>>, r)
           ELSE IF TryNext(r.err)
           THEN IF i < Len(Candidates(rawURL))
                THEN RsCall([rsStack EXCEPT ![d].cand = i + 1], rsLog, "cand", "repoResolve",
                            git(buildRedirectArgs(parent, parent, Candidates(rawURL)[i + 1], NoAuthArgs)),
                            DefaultTreeArgs, "candidate", rsCur.client)
                ELSE RsReturn(<<>>, Ret(ErrTriedAll, Nil))
           ELSE RsReturn(<<>>, Ret(r.err, Nil))
    /\ UNCHANGED <<rsEnv, rsCur, rsValid, rsOut, rsOps>>
    /\ RsOnly

\* The redirect has returned; after an error of the redirect on an explicit
\* URL the resolver goes on to the leaf with the descriptor as it is
RepoResolveRedirectedFallingBack ==
    /\ Running("repoResolve", {"redirect", "ctxauth"})
    /\ Top.ret.set
    /\ IF Top.ret.err # NoErr /\ Top.obj.URL # NoURL
       THEN RsLeaf(Top.obj, <<>>)
       ELSE RsReturn(<<>>, Top.ret) /\ UNCHANGED rsValid
    /\ UNCHANGED <<rsEnv, rsCur, rsOut, rsOps>>
    /\ RsOnly

\* redirectToURL and resolveWithAuthFromContext: the redirect has returned,
\* and its result or error is the resolver's
RepoResolveRedirected ==
    /\ Running("repoResolve", {"redirect", "ctxauth"})
    /\ Top.ret.set
    /\ RsReturn(<<>>, Top.ret)
    /\ UNCHANGED <<rsEnv, rsCur, rsValid, rsOut, rsOps>>
    /\ RsOnly

\* resolveWithAuthFromContext on an ssh URL when the client's metadata has
\* no agent socket path: fmt.Errorf("%w: ...", gitutil.ErrGitAuthFailed)
ErrNoSSHSocketUnwrapped ==
    Err(FALSE, <<"SSH URLs are not supported without an SSH socket">>)

ErrNoSSHSocket ==
    Err(TRUE, <<"SSH URLs are not supported without an SSH socket">>)

\* resolveWithAuthFromContext: host.unixSocket(path) failed
ErrGetSSHSocket == Err(TRUE, <<"failed to get SSH socket">>)

\* repoResolve, case 2: resolveWithAuthFromContext, and the leaf when the
\* context has no credential for an http remote
RepoResolveNoAuth ==
    /\ Running("repoResolve", {"start"})
    /\ Top.obj.Backend = "remote"
    /\ Top.obj.URL # NoURL
    /\ ~hasExplicitAuth(Top.obj)
    /\ LET d == Len(rsStack)
           c == rsCur.client
           given == Top.obj
       IN  IF given.URL.Scheme = SSHProtocol
           THEN LET remote == IF given.URL.User = ""
                              THEN [given EXCEPT !.URL.User = "git"] ELSE given
                    st == [rsStack EXCEPT ![d].obj = remote]
                IN  /\ IF rsEnv.agent[c] = "none"
                       THEN RsReturnOn(st, <<>>, Ret(ErrNoSSHSocket, Nil))
                       ELSE IF rsEnv.agent[c] = "broken"
                       THEN RsReturnOn(st, <<>>, Ret(ErrGetSSHSocket, Nil))
                       ELSE RsCall(st, rsLog, "ctxauth", "repoResolve",
                                   git(buildRedirectArgs(remote, remote, URLString(remote.URL),
                                         [NoAuthArgs EXCEPT !.sshAuthSocket = SockOf(c)])),
                                   DefaultTreeArgs, "ctxauth", c)
                    /\ UNCHANGED rsValid
           ELSE LET cred == getCredentialFromStore(rsEnv, c)
                    evs == IF QueriesStore(rsEnv, c)
                           THEN <<Ev("credential", d, "repoResolve",
                                     rsEnv.store[rsEnv.parentOf[c]], given, NoErr)>>
                           ELSE <<>>
                IN  IF cred.token = ""
                    THEN RsLeaf(given, evs)
                    ELSE /\ RsCall(rsStack, rsLog \o evs, "ctxauth", "repoResolve",
                                   git(buildRedirectArgs(given, given, URLString(given.URL),
                                         [NoAuthArgs EXCEPT !.httpAuthToken = cred.token,
                                                            !.httpAuthUsername = cred.username])),
                                   DefaultTreeArgs, "ctxauth", c)
                         /\ UNCHANGED rsValid
    /\ UNCHANGED <<rsEnv, rsCur, rsOut, rsOps>>
    /\ RsOnly

\* repoResolve, case 3: the leaf
RepoResolveLeaf ==
    /\ Running("repoResolve", {"start"})
    /\ Top.obj.Backend = "remote"
    /\ Top.obj.URL # NoURL
    /\ hasExplicitAuth(Top.obj)
    /\ RsLeaf(Top.obj, <<>>)
    /\ UNCHANGED <<rsEnv, rsCur, rsOut, rsOps>>
    /\ RsOnly

\* refResolve up to the Select of the repository's __resolve
RefResolveEnter ==
    /\ Running("refResolve", {"start"})
    /\ RsCall(rsStack, rsLog, "repo", "repoResolve", Top.obj.Repo, DefaultTreeArgs,
              "owner", rsCur.client)
    /\ UNCHANGED <<rsEnv, rsCur, rsValid, rsOut, rsOps>>
    /\ RsOnly

\* refResolve that resolves the name but keeps the repository it was given
RefResolveFinishUnbound ==
    /\ Running("refResolve", {"repo"})
    /\ Top.ret.set
    /\ LET r == Top.ret
           d == Len(rsStack)
           look == RefLookup(rsEnv, r.val, Top.obj.Ref.Name)
           bound == [Top.obj EXCEPT !.Ref = [Name |-> look.Name, SHA |-> look.SHA],
                                    !.Resolved = TRUE]
           resolved == [bound EXCEPT !.digest = computeCanonicalRefDigest(bound)]
       IN  IF r.err # NoErr
           THEN RsReturn(<<>>, Ret(Err(r.err.auth, <<"failed to resolve repo: ">> \o r.err.msg), Nil))
           ELSE RsReturn(<<Ev("lookup", d, "refResolve", "", Top.obj, look.err)>>,
                         IF look.err = NoErr THEN Ret(NoErr, resolved) ELSE Ret(look.err, Nil))
    /\ UNCHANGED <<rsEnv, rsCur, rsValid, rsOut, rsOps>>
    /\ RsOnly

\* refResolve: the repository is back; rebind a clone of the ref to it,
\* resolve the name, attach the canonical digest
RefResolveFinish ==
    /\ Running("refResolve", {"repo"})
    /\ Top.ret.set
    /\ LET r == Top.ret
           d == Len(rsStack)
           look == RefLookup(rsEnv, r.val, Top.obj.Ref.Name)
           bound == [Top.obj EXCEPT !.Repo = r.val,
                                    !.Ref = [Name |-> look.Name, SHA |-> look.SHA],
                                    !.Resolved = TRUE]
           resolved == [bound EXCEPT !.digest = computeCanonicalRefDigest(bound)]
       IN  IF r.err # NoErr
           THEN RsReturn(<<>>, Ret(Err(r.err.auth, <<"failed to resolve repo: ">> \o r.err.msg), Nil))
           ELSE RsReturn(<<Ev("lookup", d, "refResolve", "", Top.obj, look.err)>>,
                         IF look.err = NoErr THEN Ret(NoErr, resolved) ELSE Ret(look.err, Nil))
    /\ UNCHANGED <<rsEnv, rsCur, rsValid, rsOut, rsOps>>
    /\ RsOnly

\* tree: on an unresolved ref, Select __resolve and then tree; on a resolved
\* ref, fetch
TreeEnter ==
    /\ Running("tree", {"start"})
    /\ IF ~Top.obj.Resolved
       THEN RsCall(rsStack, rsLog, "resolved", "refResolve", Top.obj, DefaultTreeArgs,
                   "resolve", rsCur.client)
       ELSE LET f == FetchTree(rsEnv, Top.obj, Top.targs)
            IN  RsReturn(<<Ev("fetch", Len(rsStack), "tree", "", Top.obj, f.err)>>,
                         Ret(f.err, f.val))
    /\ UNCHANGED <<rsEnv, rsCur, rsValid, rsOut, rsOps>>
    /\ RsOnly

\* tree: the second selector of Select(parent, __resolve, tree)
TreeResolved ==
    /\ Running("tree", {"resolved"})
    /\ Top.ret.set
    /\ IF Top.ret.err # NoErr
       THEN RsReturn(<<>>, Top.ret)
       ELSE RsCall(rsStack, rsLog, "done", "tree", Top.ret.val, Top.targs, "tree", rsCur.client)
    /\ UNCHANGED <<rsEnv, rsCur, rsValid, rsOut, rsOps>>
    /\ RsOnly

\* tree: the Select has returned
TreeDone ==
    /\ Running("tree", {"done"})
    /\ Top.ret.set
    /\ RsReturn(<<>>, Top.ret)
    /\ UNCHANGED <<rsEnv, rsCur, rsValid, rsOut, rsOps>>
    /\ RsOnly

\* core.MergeBase: the commit both histories share; in the remotes of the
\* model CommitX is an ancestor of CommitY
MergeBase(r, other) ==
    [kind |-> "ref",
     Repo |-> r.Repo,
     Ref |-> [Name |-> <<>>,
              SHA |-> IF r.Ref.SHA = other.Ref.SHA THEN r.Ref.SHA ELSE CommitX],
     Resolved |-> TRUE,
     digest |-> CurrentID(r, "commonAncestor") \o other.digest]

\* commonAncestor that computes the merge base as soon as the receiver is
\* resolved
CommonAncestorEnterUnchecked ==
    /\ Running("commonAncestor", {"start"})
    /\ LET other == Top.targs.other
       IN  IF ~Top.obj.Resolved
           THEN RsCall(rsStack, rsLog, "self", "refResolve", Top.obj, DefaultTreeArgs,
                       "self", rsCur.client)
           ELSE RsReturn(<<Ev("mergebase", Len(rsStack), "commonAncestor", "",
                              [self |-> Top.obj, other |-> other], NoErr)>>,
                         Ret(NoErr, MergeBase(Top.obj, other)))
    /\ UNCHANGED <<rsEnv, rsCur, rsValid, rsOut, rsOps>>
    /\ RsOnly

\* commonAncestor: resolve the receiver when it is not resolved, else the
\* other ref when it is not, else compute the merge base
CommonAncestorEnter ==
    /\ Running("commonAncestor", {"start"})
    /\ LET other == Top.targs.other
       IN  IF ~Top.obj.Resolved
           THEN RsCall(rsStack, rsLog, "self", "refResolve", Top.obj, DefaultTreeArgs,
                       "self", rsCur.client)
           ELSE IF ~other.Resolved
           THEN RsCall(rsStack, rsLog, "other", "refResolve", other, DefaultTreeArgs,
                       "other", rsCur.client)
           ELSE RsReturn(<<Ev("mergebase", Len(rsStack), "commonAncestor", "",
                              [self |-> Top.obj, other |-> other], NoErr)>>,
                         Ret(NoErr, MergeBase(Top.obj, other)))
    /\ UNCHANGED <<rsEnv, rsCur, rsValid, rsOut, rsOps>>
    /\ RsOnly

\* commonAncestor: the receiver is back from __resolve; the request is
\* issued again on it
CommonAncestorSelf ==
    /\ Running("commonAncestor", {"self"})
    /\ Top.ret.set
    /\ IF Top.ret.err # NoErr
       THEN RsReturn(<<>>, Top.ret)
       ELSE RsCall(rsStack, rsLog, "reissued", "commonAncestor", Top.ret.val,
                   [other |-> Top.targs.other], "reissue", rsCur.client)
    /\ UNCHANGED <<rsEnv, rsCur, rsValid, rsOut, rsOps>>
    /\ RsOnly

\* commonAncestor: the other ref is back from __resolve; the request is
\* issued again with it
CommonAncestorOther ==
    /\ Running("commonAncestor", {"other"})
    /\ Top.ret.set
    /\ IF Top.ret.err # NoErr
       THEN RsReturn(<<>>, Top.ret)
       ELSE RsCall(rsStack, rsLog, "reissued", "commonAncestor", Top.obj,
                   [other |-> Top.ret.val], "reissue", rsCur.client)
    /\ UNCHANGED <<rsEnv, rsCur, rsValid, rsOut, rsOps>>
    /\ RsOnly

\* commonAncestor: the request issued again has returned
CommonAncestorDone ==
    /\ Running("commonAncestor", {"reissued"})
    /\ Top.ret.set
    /\ RsReturn(<<>>, Top.ret)
    /\ UNCHANGED <<rsEnv, rsCur, rsValid, rsOut, rsOps>>
    /\ RsOnly

RsNext ==
    \/ \E c \in Clients, rq \in AllRequests : RsStart(c, rq)
    \/ RsDeliver
    \/ RepoResolveLocal
    \/ RepoResolveAmbiguous
    \/ RepoResolveCandidate
    \/ RepoResolveRedirected
    \/ RepoResolveNoAuth
    \/ RepoResolveLeaf
    \/ RefResolveEnter
    \/ RefResolveFinish
    \/ TreeEnter
    \/ TreeResolved
    \/ TreeDone
    \/ CommonAncestorEnter
    \/ CommonAncestorSelf
    \/ CommonAncestorOther
    \/ CommonAncestorDone

InitResolve == RsInit /\ CkIdle /\ RmIdle /\ OthersIdle

SpecResolve == InitResolve /\ [][RsNext]_vars

\* The worlds in which progress is checked: every answer of the remote on
\* https and on ssh, every state of the agent, a store with and without a
\* credential, for one request; and one request of the shared world
LiveWorlds ==
    {w \in WideWorlds :
        /\ w.parentOf["A"] = "A"
        /\ w.tokens[RawR] # {}
        /\ w.keys[RawR] # {}
        /\ w.store["A"] \in {"none", "cred"}}
    \cup {[w EXCEPT !.maxOps = 1] : w \in SharedWorlds}

InitResolveLive == RsInitIn(LiveWorlds) /\ CkIdle /\ RmIdle /\ OthersIdle

\* The engine runs a resolver it has started until it returns
SpecResolveLive == InitResolveLive /\ [][RsNext]_vars /\ WF_vars(RsNext)


----------------------------------------------------------------------------
(* Properties of the resolver *)

LogIdx == 1..Len(rsLog)

\* The Select of a candidate of the ambiguous-URL trial
CandSel(j) == rsLog[j].ev = "select" /\ rsLog[j].why = "candidate"

\* Event k is the return of the call that event j selected
DoneOf(j, k) ==
    /\ j < k
    /\ rsLog[k].ev = "done"
    /\ rsLog[k].depth = rsLog[j].depth + 1
    /\ rsLog[k].obj.kind = rsLog[j].obj.kind
    /\ rsLog[k].obj.kind = "repo" => rsLog[k].obj.args = rsLog[j].obj.args
    /\ \A m \in LogIdx : (j < m /\ m < k) =>
          ~(rsLog[m].ev = "done" /\ rsLog[m].depth = rsLog[j].depth + 1)

\* Event k is the return of a candidate
CandDone(k) == \E j \in LogIdx : CandSel(j) /\ DoneOf(j, k)

\* The resolver running at depth d returns at event m
FrameDone(m, d) == rsLog[m].ev = "done" /\ rsLog[m].depth = d

\* The request being served is for an ambiguous remote
AmbiguousRequest ==
    /\ rsCur # NoReq
    /\ rsCur.op = "repoResolve"
    /\ rsCur.recv.URL = NoURL

\* C7: in the trial of an ambiguous URL without credentials, the ssh
\* candidate is selected only after the https candidate was selected and
\* has returned, and only when it returned an authentication error
C7_HttpsBeforeSsh ==
    \A j \in LogIdx :
        (CandSel(j) /\ rsLog[j].obj.URL.Scheme = SSHProtocol) =>
            \E i, k \in LogIdx :
                /\ i < k /\ k < j
                /\ CandSel(i)
                /\ rsLog[i].depth = rsLog[j].depth
                /\ rsLog[i].obj.args.url = HttpsOf(rsLog[j].obj.URL.Raw)
                /\ DoneOf(i, k)
                /\ rsLog[k].err.auth

C7_Witness ==
    /\ AmbiguousRequest
    /\ ~hasExplicitAuth(rsCur.recv)
    /\ \E j \in LogIdx : CandSel(j) /\ rsLog[j].obj.args.url = SshGitOf(rsCur.recv.args.url)

\* C8: what follows the return of a candidate: after a success the trial
\* returns the candidate's result, after an authentication error it selects
\* the next candidate, after any other error it returns that error; in the
\* first and the last case no further candidate is selected
C8_CandidateTrial ==
    \A k \in LogIdx :
        (CandDone(k) /\ k < Len(rsLog)) =>
            LET d == rsLog[k].depth - 1
                e == rsLog[k].err
                isHttps == rsLog[k].obj.URL.Scheme = HTTPSProtocol
                noMore == \A j \in LogIdx : (j > k /\ CandSel(j)) => rsLog[j].depth # d
            IN  CASE e = NoErr ->
                        /\ FrameDone(k + 1, d) /\ rsLog[k + 1].err = NoErr
                        /\ rsLog[k + 1].res = rsLog[k].res
                        /\ noMore
                  [] e.auth /\ isHttps ->
                        /\ CandSel(k + 1) /\ rsLog[k + 1].depth = d
                        /\ rsLog[k + 1].obj.args.url = SshGitOf(rsLog[k].obj.URL.Raw)
                  [] e.auth /\ ~isHttps ->
                        FrameDone(k + 1, d) /\ rsLog[k + 1].err # NoErr
                  [] OTHER ->
                        /\ FrameDone(k + 1, d) /\ rsLog[k + 1].err = e
                        /\ noMore

\* https failed with an authentication error, ssh with another error, and
\* the trial is over
C8_Witness ==
    /\ rsStack = <<>>
    /\ \E i, k \in LogIdx :
          /\ i < k /\ k < Len(rsLog)
          /\ CandDone(i) /\ rsLog[i].err.auth
          /\ CandDone(k) /\ rsLog[k].err # NoErr /\ ~rsLog[k].err.auth

\* Whether an error message names both protocols
NamesBothProtocols(msg) ==
    /\ \E i \in 1..Len(msg) : msg[i] = HTTPSProtocol
    /\ \E i \in 1..Len(msg) : msg[i] = SSHProtocol

\* Both candidates have returned an authentication error
AllCandidatesAuthFailed ==
    \E i, k \in LogIdx :
        /\ i < k
        /\ CandDone(i) /\ rsLog[i].err.auth /\ rsLog[i].obj.URL.Scheme = HTTPSProtocol
        /\ CandDone(k) /\ rsLog[k].err.auth /\ rsLog[k].obj.URL.Scheme = SSHProtocol

\* C9: when both candidates failed with an authentication error, the error
\* delivered is an authentication error and names both protocols
C9_ExhaustionIsAuthError ==
    (AmbiguousRequest /\ rsOut # NoDelivery /\ AllCandidatesAuthFailed) =>
        /\ rsOut.err.auth
        /\ NamesBothProtocols(rsOut.err.msg)

\* The Selects issued by the resolver of the request itself
OwnSelects == {j \in LogIdx : rsLog[j].ev = "select" /\ rsLog[j].depth = 2}

\* The request is answered from the client's own cache: the resolver does
\* not run
ServedFromCache ==
    /\ Len(rsLog) >= 2
    /\ rsLog[2].ev = "done"
    /\ rsLog[2].depth = 2
    /\ rsLog[2].why = "cached"

\* C10: an ambiguous remote with a credential attached is resolved by one
\* redirect, to ssh://git@<raw> when an ssh socket is attached and to
\* https://<raw> otherwise; no ls-remote is made on the other protocol and
\* the redirect's error is the error delivered (a request the client has
\* made before is answered from its cache, without running the resolver)
C10_ExplicitAuthOneRedirect ==
    (AmbiguousRequest /\ hasExplicitAuth(rsCur.recv) /\ ~ServedFromCache) =>
        LET raw == rsCur.recv.args.url
            url == IF rsCur.recv.SSHAuthSocket # "" THEN SshGitOf(raw) ELSE HttpsOf(raw)
        IN  /\ Cardinality(OwnSelects) <= 1
            /\ \A j \in OwnSelects :
                  /\ rsLog[j].why = "redirect"
                  /\ rsLog[j].obj.args.url = url
                  /\ \A k \in LogIdx : DoneOf(j, k) =>
                        /\ (k < Len(rsLog)) =>
                              FrameDone(k + 1, 2) /\ rsLog[k + 1].err = rsLog[k].err
                        /\ (rsOut # NoDelivery) => rsOut.err = rsLog[k].err
            /\ \A m \in LogIdx :
                  rsLog[m].ev \in {"lsremote", "select"} /\ rsLog[m].depth >= 2
                     => rsLog[m].obj.URL.Scheme = ParseURL(url).Scheme
            /\ (rsOut # NoDelivery) => Cardinality(OwnSelects) = 1

\* a redirect of an ambiguous remote with a credential has failed and the
\* failure was delivered
C10_Witness ==
    /\ AmbiguousRequest
    /\ hasExplicitAuth(rsCur.recv)
    /\ rsOut # NoDelivery
    /\ rsOut.err # NoErr
    /\ \E j \in OwnSelects : rsLog[j].why = "redirect"

\* The remote a result came from
Origin(val) ==
    CASE val.kind = "dir" -> val.origin
      [] val.kind = "ref" -> val.Repo.URL.Raw
      [] OTHER -> val.URL.Raw

\* C3: a result is delivered only to a client that passed, in its session,
\* a leaf validation of the remote the result came from
C3_ServedOnlyAfterOwnValidation ==
    (rsOut # NoDelivery /\ rsOut.err = NoErr) =>
        <<rsOut.client, Origin(rsOut.val)>> \in rsValid

\* A run of repoResolve on an explicit ssh URL without credentials returns
\* at event k
SshNoAuthRun(k) ==
    /\ rsLog[k].ev = "done"
    /\ rsLog[k].why = "ran"
    /\ rsLog[k].fn = "repoResolve"
    /\ rsLog[k].obj.URL.Scheme = SSHProtocol
    /\ ~hasExplicitAuth(rsLog[k].obj)

HttpNoAuthRun(k) ==
    /\ rsLog[k].ev = "done"
    /\ rsLog[k].why = "ran"
    /\ rsLog[k].fn = "repoResolve"
    /\ rsLog[k].obj.URL.Scheme = HTTPSProtocol
    /\ ~hasExplicitAuth(rsLog[k].obj)

\* The store gives the client nothing: the client is not the author of the
\* surrounding request, the store has no entry, or the lookup fails
StoreGivesNothing ==
    \/ rsEnv.parentOf[rsCur.client] # rsCur.client
    \/ rsEnv.store[rsCur.client] \in {"none", "error"}

\* C12: when the credential store gives nothing or the lookup fails,
\* repoResolve on an explicit https URL without credentials issues no
\* redirect and makes one ls-remote with the descriptor as it is; on a
\* public remote it returns the resolved repository, on a remote that
\* requires credentials the authentication error of the ls-remote
C12_StoreMissFallsThroughToLeaf ==
    (rsCur # NoReq /\ StoreGivesNothing) =>
        \A k \in LogIdx : HttpNoAuthRun(k) =>
            LET d == rsLog[k].depth
                obj == rsLog[k].obj
                j == IF k > 2 /\ rsLog[k - 2].ev = "credential" THEN k - 3 ELSE k - 2
            IN  /\ k > 2
                /\ rsLog[k - 1].ev = "lsremote"
                /\ rsLog[k - 1].depth = d
                /\ rsLog[k - 1].obj = obj
                /\ j >= 1
                /\ rsLog[j].ev = "select"
                /\ rsLog[j].depth = d - 1
                /\ rsLog[j].obj = obj
                /\ (rsEnv.https[obj.URL.Raw] = "public") =>
                      /\ rsLog[k].err = NoErr
                      /\ rsLog[k].res = computeCanonicalRepoDigest(obj, obj.DiscardGitDir)
                /\ (rsEnv.https[obj.URL.Raw] = "private") =>
                      /\ rsLog[k].err.auth
                      /\ rsLog[k].err.msg = <<"git ls-remote failed">>

\* the lookup failed, the remote requires credentials, and the error of the
\* leaf was delivered
C12_Witness ==
    /\ rsCur # NoReq
    /\ rsCur.op = "repoResolve"
    /\ rsCur.recv.URL.Scheme = HTTPSProtocol
    /\ ~hasExplicitAuth(rsCur.recv)
    /\ rsEnv.parentOf[rsCur.client] = rsCur.client
    /\ rsEnv.store[rsCur.client] = "error"
    /\ rsEnv.https[rsCur.recv.URL.Raw] = "private"
    /\ rsOut # NoDelivery
    /\ rsOut.err.auth
    /\ \E k \in LogIdx : rsLog[k].ev = "credential"

\* The client of the request is not the author of the surrounding request
ForeignClient ==
    /\ rsCur # NoReq
    /\ rsEnv.parentOf[rsCur.client] # rsCur.client

\* C13: when the client of the request is not the client that authored the
\* surrounding request, the credential store is not queried, no redirect
\* with a credential from the context of an http remote is issued, and no
\* descriptor carries a token the request did not attach itself
C13_StoreOnlyForAuthor ==
    ForeignClient =>
        \A m \in LogIdx :
            /\ rsLog[m].ev # "credential"
            /\ (rsLog[m].ev = "select" /\ rsLog[m].why = "ctxauth")
                  => rsLog[m].obj.URL.Scheme = SSHProtocol
            /\ rsLog[m].obj.AuthToken \in {"", rsCur.recv.AuthToken}

\* a module client resolved an https URL without credentials while the
\* store of its caller holds one
C13_Witness ==
    /\ ForeignClient
    /\ rsEnv.store[rsEnv.parentOf[rsCur.client]] = "cred"
    /\ rsOut # NoDelivery
    /\ \E k \in LogIdx : HttpNoAuthRun(k)

\* The resolved repositories the engine holds
ResolvedRepos == {e \in rsCache : e.key.field = "repoResolve"}

\* e1 and e2 are resolutions, for one client, of two spellings of one remote
\* with the same credentials and options: protocol-less, resolved through
\* https, and explicit https
SameRemoteTwoSpellings(e1, e2) ==
    /\ e1.key.client = e2.key.client
    /\ e1.recv.URL = NoURL
    /\ e1.val.URL.Scheme = HTTPSProtocol
    /\ e2.recv.args = [e1.recv.args EXCEPT !.url = HttpsOf(e1.recv.args.url)]

\* C14: the repositories resolved from "host/a/b" (through https) and from
\* "https://host/a/b" with the same credentials and options have the same
\* digest
C14_SpellingsConverge ==
    \A e1, e2 \in ResolvedRepos :
        SameRemoteTwoSpellings(e1, e2) => e1.val.digest = e2.val.digest

\* The inputs RepositoryDigest is said to depend on
AuthShape(r) ==
    <<r.URL, r.SSHAuthSocket # "", r.AuthToken # "", r.AuthHeader # "",
      r.AuthUsername, r.DiscardGitDir>>

\* C15: two resolved repositories with the same URL, the same credential
\* kinds, the same user name and the same discardGitDir have the same
\* digest, whichever sockets and secrets are attached
C15_DigestIgnoresCredentialIdentity ==
    \A e1, e2 \in ResolvedRepos :
        (AuthShape(e1.val) = AuthShape(e2.val)) => (e1.val.digest = e2.val.digest)

\* two clients resolved the same URL, each with its own token
C15_Witness ==
    \E e1, e2 \in ResolvedRepos :
        /\ AuthShape(e1.val) = AuthShape(e2.val)
        /\ e1.val.AuthToken # ""
        /\ e2.val.AuthToken # ""
        /\ e1.val.AuthToken # e2.val.AuthToken

\* The directories the engine holds as results of tree
Trees == {e \in rsCache : e.key.field = "tree"}

\* C16: two results of tree with the same content have the same digest
\* when discardGitDir and depth are the same, whichever repository URL and
\* credential the ref was reached with, and different digests when
\* discardGitDir or depth differ
C16_TreeDigestFromContentAndScope ==
    \A e1, e2 \in Trees :
        (e1.val.content = e2.val.content) =>
            ((e1.key.args = e2.key.args) <=> (e1.val.digest = e2.val.digest))

\* one commit was reached with a token and with a header, and its tree
\* has one digest
C16_Witness ==
    \E e1, e2 \in Trees :
        /\ ~e1.recv.Resolved /\ ~e2.recv.Resolved
        /\ e1.recv.Repo.AuthToken # "" /\ e2.recv.Repo.AuthHeader # ""
        /\ e1.val.content = e2.val.content
        /\ e1.val.digest = e2.val.digest

\* The resolved refs the engine holds
ResolvedRefs == {e \in rsCache : e.key.field = "refResolve"}

\* C17: two resolved refs have the same digest exactly when they have the
\* same resolved name and the same SHA, whatever repository and credentials
\* they were resolved with
C17_RefDigestFromNameAndSha ==
    \A e1, e2 \in ResolvedRefs :
        (e1.val.Ref = e2.val.Ref) <=> (e1.val.digest = e2.val.digest)

\* one commit was resolved as a ref of two repositories
C17_Witness ==
    \E e1, e2 \in ResolvedRefs :
        /\ e1.val.Ref = e2.val.Ref
        /\ e1.val.Repo.URL # e2.val.Repo.URL

\* The chain of repository resolutions in progress, outermost first
RepoChain == SelectSeq(rsStack, LAMBDA f : f.fn = "repoResolve")

\* How much of a repository descriptor is still undecided: its protocol,
\* its credentials
Ambiguity(obj) ==
    (IF obj.URL = NoURL THEN 2 ELSE 0) + (IF hasExplicitAuth(obj) THEN 0 ELSE 1)

\* Every redirect in progress goes to a less ambiguous descriptor, no call
\* is nested in a call of the same key, and a chain has at most 4 redirects
RedirectsReduceAmbiguity ==
    /\ Len(RepoChain) - 1 <= 4
    /\ \A i \in 1..(Len(RepoChain) - 1) :
          Ambiguity(RepoChain[i + 1].obj) < Ambiguity(RepoChain[i].obj)
    /\ \A i, j \in 1..Len(rsStack) : (i # j) => rsStack[i].key # rsStack[j].key

\* C18: every redirect in progress goes to a strictly less ambiguous
\* descriptor, no call is nested in itself, a chain never holds more than 4
\* redirects, and every request the engine has started is delivered (as a
\* result or as an error)
C18_ResolutionTerminates ==
    /\ []RedirectsReduceAmbiguity
    /\ (rsStack # <<>>) ~> (rsStack = <<>> /\ rsOut # NoDelivery)

\* a request that went through the trial of candidates and through a
\* redirect with a credential of the context has been delivered
C18_Witness ==
    /\ rsStack = <<>>
    /\ rsOut # NoDelivery
    /\ \E i, j \in LogIdx :
          /\ i < j
          /\ rsLog[i].ev = "select" /\ rsLog[i].why = "candidate"
          /\ rsLog[j].ev = "select" /\ rsLog[j].why = "ctxauth"
          /\ rsLog[j].depth = rsLog[i].depth + 1

\* The options of a repository descriptor that come from the caller next
\* to the URL and the credentials
Peripheral(obj) == <<obj.DiscardGitDir, obj.SSHKnownHosts, obj.PinnedHead>>

\* C19: every redirect of a repository resolution is a request with the
\* keep-git-dir value, the known hosts and the pinned commit and ref of the
\* request it replaces, and the repository delivered has the DiscardGitDir
\* and the PinnedHead the request asked for
C19_RedirectPreservesOptions ==
    (rsCur # NoReq /\ rsCur.op = "repoResolve") =>
        /\ \A m \in LogIdx :
              (rsLog[m].ev = "select" /\ rsLog[m].why \in {"redirect", "candidate", "ctxauth"})
                 => Peripheral(rsLog[m].obj) = Peripheral(rsCur.recv)
        /\ (rsOut # NoDelivery /\ rsOut.err = NoErr)
              => Peripheral(rsOut.val) = Peripheral(rsCur.recv)

\* ---------------------------------------------------------------------
\* Properties of Lookup on names, and of the derived Remotes

\* The name the last Lookup matched against: the Head override's name for
\* HEAD, the caller's target otherwise
MatchedTarget ==
    IF rmRes.target = S_HEAD /\ rmHead.set /\ rmHead.Name # <<>>
    THEN rmHead.Name ELSE rmRes.target

\* The last call was a Lookup of a name
LookedUpName == rmRes.op = "Lookup" /\ ~IsCommitSHA(MatchedTarget)

\* The names a target stands for, most specific first
Priority(t) ==
    << t,
       S_refs \o TrimPrefix(t, S_refs),
       S_heads \o TrimPrefix(t, S_heads),
       S_tags \o TrimPrefix(t, S_tags),
       S_tags \o TrimPrefix(t, S_tags) \o S_peeled >>

\* The advertised entry under the first name of Priority(t) that exists, 0
\* when none does
FirstExisting(t) ==
    LET hits == {k \in 1..5 : Priority(t)[k] \in DOMAIN rmMap}
    IN  IF hits = {} THEN 0
        ELSE rmMap[Priority(t)[CHOOSE k \in hits : \A l \in hits : k <= l]]

\* The last Lookup was of HEAD on a Remote whose Head override pins a SHA
ShaPinned == rmRes.target = S_HEAD /\ rmHead.set /\ rmHead.SHA # <<>>

\* C21: a Lookup of a name returns the first existing entry in the order
\* literal name, refs/ name, refs/heads/ name, refs/tags/ name, peeled tag;
\* a short name that is both a branch and a tag gives the branch
C21_LookupPriorityOrder ==
    (LookedUpName /\ rmRes.err = "" /\ ~ShaPinned)
        => /\ FirstExisting(MatchedTarget) # 0
           /\ rmRes.SHA = rmHeap[FirstExisting(MatchedTarget)].SHA

C21_Witness ==
    /\ LookedUpName /\ rmRes.err = "" /\ rmRes.target = <<"x">>
    /\ S_heads \o <<"x">> \in DOMAIN rmMap
    /\ S_tags \o <<"x">> \in DOMAIN rmMap
    /\ rmRes.SHA = rmHeap[rmMap[S_heads \o <<"x">>]].SHA
    /\ rmRes.SHA # rmHeap[rmMap[S_tags \o <<"x">>]].SHA

\* C22: a Lookup of a name that matches no entry fails with the not-found
\* error, and a Lookup that succeeds has matched an entry
C22_NoMatchIsNotFound ==
    LookedUpName
        => /\ (FirstExisting(MatchedTarget) = 0) <=> (rmRes.err = "notfound")
           /\ (rmRes.err # "") => (rmRes.Name = <<>> /\ rmRes.SHA = <<>>)

C22_Witness ==
    /\ LookedUpName /\ rmRes.target = <<"z">>
    /\ rmRefs # <<>>
    /\ rmRes.err = "notfound"

\* C23: a Lookup whose matched entry has a SHA that is not a commit SHA
\* fails with the invalid-ref error and returns no Ref
C23_MalformedMatchIsInvalid ==
    (LookedUpName /\ FirstExisting(MatchedTarget) # 0)
        => (~IsCommitSHA(rmHeap[FirstExisting(MatchedTarget)].SHA)
                => (rmRes.err = "invalid" /\ rmRes.Name = <<>> /\ rmRes.SHA = <<>>))

C23_Witness ==
    /\ LookedUpName /\ rmRes.target = <<"m">>
    /\ FirstExisting(MatchedTarget) # 0
    /\ rmHeap[FirstExisting(MatchedTarget)].SHA = BadSha
    /\ rmRes.err = "invalid"

\* C24: every Ref a successful Lookup returns has a well-formed SHA, also
\* on a Remote whose Head override carries a pinned SHA
C24_ReturnedShaWellFormed ==
    (rmRes.op = "Lookup" /\ rmRes.err = "") => IsCommitSHA(rmRes.SHA)

\* C25: for Lookup("HEAD") the override's name replaces the target and the
\* override's SHA replaces the matched SHA; for another target the override
\* changes nothing
C25_HeadOverrideOnlyForHead ==
    (LookedUpName /\ rmRes.err = "")
        => /\ (rmRes.target = S_HEAD /\ rmHead.set /\ rmHead.Name # <<>>)
                => /\ FirstExisting(rmHead.Name) # 0
                   /\ rmHead.SHA = <<>>
                        => rmRes.SHA = rmHeap[FirstExisting(rmHead.Name)].SHA
           /\ (rmRes.target = S_HEAD /\ rmHead.set /\ rmHead.SHA # <<>>)
                => rmRes.SHA = rmHead.SHA
           /\ (rmRes.target # S_HEAD)
                => /\ FirstExisting(rmRes.target) # 0
                   /\ rmRes.SHA = rmHeap[FirstExisting(rmRes.target)].SHA

\* Lookup("HEAD") answered from the entry the override names
C25_Witness ==
    /\ LookedUpName /\ rmRes.err = "" /\ rmRes.target = S_HEAD
    /\ rmHead.set /\ rmHead.Name = S_tags \o <<"v">>
    /\ S_HEAD \in DOMAIN rmMap
    /\ rmRes.SHA = rmHeap[rmMap[S_tags \o <<"v">>]].SHA
    /\ rmRes.SHA # rmHeap[rmMap[S_HEAD]].SHA

\* C26: when the name of the matched entry is a symref, the returned Name
\* is the symref's target and the SHA is the matched entry's
C26_SymrefNameResolved ==
    (/\ LookedUpName /\ rmRes.err = ""
     /\ FirstExisting(MatchedTarget) # 0
     /\ rmHeap[FirstExisting(MatchedTarget)].Name \in DOMAIN rmSymrefs)
        => /\ rmRes.Name = rmSymrefs[rmHeap[FirstExisting(MatchedTarget)].Name]
           /\ ~ShaPinned => rmRes.SHA = rmHeap[FirstExisting(MatchedTarget)].SHA

C26_Witness ==
    /\ LookedUpName /\ rmRes.err = "" /\ rmRes.target = S_HEAD
    /\ ~rmHead.set
    /\ rmRes.Name = S_heads \o <<"m">>
    /\ rmRes.SHA = rmHeap[rmMap[S_HEAD]].SHA

\* The position of address a in a sequence of addresses, 0 when absent
PosIn(refs, a) ==
    IF \E k \in 1..Len(refs) : refs[k] = a
    THEN CHOOSE k \in 1..Len(refs) : refs[k] = a
    ELSE 0

\* sub holds exactly the entries of refs that satisfy keep, in the order
\* of refs
ExactlyInOrder(sub, refs, keep(_)) ==
    /\ {sub[k] : k \in 1..Len(sub)} = {refs[k] : k \in {j \in 1..Len(refs) : keep(refs[j])}}
    /\ \A i, j \in 1..Len(sub) : i < j => PosIn(refs, sub[i]) < PosIn(refs, sub[j])

IsTagEntry(a) ==
    HasPrefix(rmHeap[a].Name, S_tags) /\ ~HasSuffix(rmHeap[a].Name, S_peeled)

IsBranchEntry(a) == HasPrefix(rmHeap[a].Name, S_heads)

\* The tags that were advertised together with their peeled entry
PeeledTags ==
    {n \in DOMAIN rmMap :
        HasPrefix(n, S_tags) /\ ~HasSuffix(n, S_peeled) /\ n \o S_peeled \in DOMAIN rmMap}

Occurrences(seq, x) == Cardinality({k \in 1..Len(seq) : seq[k] = x})

\* C27: Tags() is exactly the refs/tags/ entries that are not peeled and
\* Branches() exactly the refs/heads/ entries, in the order of Refs, so a
\* tag advertised with its peeled entry is listed once by its short name
C27_TagsAndBranchesSelect ==
    /\ (rmRes.op = "tags" /\ rmRes.patterns = <<>>)
            => /\ ExactlyInOrder(rmRes.remote.refs, rmRefs, IsTagEntry)
               /\ \A n \in PeeledTags : Occurrences(rmRes.names, ShortName(n)) = 1
    /\ (rmRes.op = "branches" /\ rmRes.patterns = <<>>)
            => ExactlyInOrder(rmRes.remote.refs, rmRefs, IsBranchEntry)

\* RefMap of a Remote holds exactly its entries, each under its name
InSync(r) ==
    /\ DOMAIN r.map = {rmHeap[r.refs[k]].Name : k \in 1..Len(r.refs)}
    /\ \A k \in 1..Len(r.refs) : r.map[rmHeap[r.refs[k]].Name] = r.refs[k]

\* C28: RefMap is in sync with Refs in the parsed Remote, after Add, and in
\* the Remotes that Tags, Branches and Filter return
C28_RefMapInSync ==
    /\ InSync(This)
    /\ rmRes.op \in {"tags", "branches"} => InSync(rmRes.remote)

\* C29: Lookup, Tags, Branches, Filter and ShortNames leave the Remote and
\* every Ref in it as they were
C29_ReadsDoNotModify ==
    [][rmRes'.op \in {"Lookup", "tags", "branches"}
          => /\ rmHeap' = rmHeap
             /\ rmRefs' = rmRefs
             /\ rmMap' = rmMap
             /\ rmSymrefs' = rmSymrefs
             /\ rmHead' = rmHead]_vars

\* Event j is the Select of a redirect that is not a candidate of the trial
\* of an ambiguous URL: the one with the credential the context supplies,
\* or the one to the URL that the given credentials imply
RedirectSel(j) == rsLog[j].ev = "select" /\ rsLog[j].why \in {"ctxauth", "redirect"}

\* C30: a redirect that is not a candidate of the trial of an ambiguous URL
\* and that fails makes the resolver that issued it fail with the same
\* error, at once: no ls-remote without the credential and no redirect to
\* another protocol follows
C30_RedirectFailureIsFinal ==
    \A j, k \in LogIdx :
        (RedirectSel(j) /\ DoneOf(j, k) /\ rsLog[k].err # NoErr /\ k < Len(rsLog)) =>
            /\ rsLog[k + 1].ev = "done"
            /\ rsLog[k + 1].fn = "repoResolve"
            /\ rsLog[k + 1].depth = rsLog[j].depth
            /\ rsLog[k + 1].err = rsLog[k].err
            /\ rsLog[k + 1].res = <<>>

\* a request for an explicit https URL without credentials, for which the
\* store had a credential that the remote refused: the error was delivered
C30_Witness ==
    /\ rsCur # NoReq
    /\ rsCur.op = "repoResolve"
    /\ rsCur.recv.URL # NoURL
    /\ rsCur.recv.URL.Scheme = HTTPSProtocol
    /\ rsOut # NoDelivery
    /\ rsOut.err # NoErr
    /\ \E j, k \in LogIdx :
          /\ rsLog[j].ev = "select" /\ rsLog[j].why = "ctxauth" /\ rsLog[j].depth = 2
          /\ DoneOf(j, k)
          /\ rsLog[k].err = rsOut.err
          /\ \A m \in LogIdx : rsLog[m].ev = "lsremote" => hasExplicitAuth(rsLog[m].obj)

\* ---------------------------------------------------------------------
\* Properties of what resolution leaves behind

\* Event k is the return, without error, of a run of repoResolve that was
\* selected at event j
RepoRun(j, k) ==
    /\ rsLog[j].ev = "select"
    /\ rsLog[j].fn = "repoResolve"
    /\ DoneOf(j, k)
    /\ rsLog[k].why = "ran"
    /\ rsLog[k].err = NoErr

\* The ls-remotes that succeeded between events j and k
LeafSteps(j, k) ==
    {m \in LogIdx : j < m /\ m < k /\ rsLog[m].ev = "lsremote" /\ rsLog[m].why = "ok"}

\* A Select between events j and k was answered from the cache
CacheHitBetween(j, k) ==
    \E m \in LogIdx : j < m /\ m < k /\ rsLog[m].ev = "done" /\ rsLog[m].why = "cached"

\* The repositories the engine has returned: cached, or delivered
ReturnedRepos ==
    {e.val : e \in {x \in rsCache : x.val.kind = "repo"}}
    \cup (IF rsOut # NoDelivery /\ rsOut.err = NoErr /\ rsOut.val.kind = "repo"
          THEN {rsOut.val} ELSE {})

\* C31: a remote repository that is returned is resolved, has an explicit
\* URL and carries the canonical digest; ls-remote runs only on an explicit
\* URL after the decision on credentials, and once with success on the
\* chain of a successful resolution; a local repository is resolved without
\* ls-remote
C31_ResolvedOnlyThroughLeaf ==
    /\ \A r \in ReturnedRepos :
          /\ r.Resolved
          /\ r.Backend = "remote" =>
                /\ r.URL # NoURL
                /\ r.digest = computeCanonicalRepoDigest(r, r.DiscardGitDir)
                /\ <<rsCur.client, r.URL.Raw>> \in rsValid
                    \/ \E c \in Clients : <<c, r.URL.Raw>> \in rsValid
    /\ \A m \in LogIdx : rsLog[m].ev = "lsremote" =>
          /\ rsLog[m].obj.Backend = "remote"
          /\ rsLog[m].obj.URL # NoURL
          /\ \/ hasExplicitAuth(rsLog[m].obj)
             \/ /\ rsLog[m].obj.URL.Scheme = HTTPSProtocol
                /\ getCredentialFromStore(rsEnv, rsCur.client).token = ""
    /\ \A j, k \in LogIdx : RepoRun(j, k) =>
          IF rsLog[j].obj.Backend = "remote"
          THEN /\ Cardinality(LeafSteps(j, k)) <= 1
               /\ ~CacheHitBetween(j, k) => Cardinality(LeafSteps(j, k)) = 1
          ELSE k = j + 1

\* an ambiguous URL resolved by its second candidate after the ls-remote of
\* the first was refused
C31_Witness ==
    /\ rsOut # NoDelivery /\ rsOut.err = NoErr /\ rsOut.val.kind = "repo"
    /\ rsCur.recv.URL = NoURL
    /\ rsCur.recv.Backend = "remote"
    /\ rsOut.val.Resolved
    /\ \E m, n \in LogIdx :
          /\ m < n
          /\ rsLog[m].ev = "lsremote" /\ rsLog[m].why = "auth"
          /\ rsLog[n].ev = "lsremote" /\ rsLog[n].why = "ok"

\* Event j is the Select by which refResolve resolves the owning repository
OwnerSel(j) == rsLog[j].ev = "select" /\ rsLog[j].why = "owner"

\* The refs that refResolve has returned, with the ref each was asked for
RefResolutions == {e \in rsCache : e.key.field = "refResolve"}

\* C32: refResolve looks the name up only after the owning repository was
\* resolved, and fails without a lookup when that failed; the ref returned
\* is bound to the resolved repository, is resolved and carries the
\* canonical digest, while the ref given is as it was
C32_RepoBeforeRefLookup ==
    /\ \A m \in LogIdx : rsLog[m].ev = "lookup" =>
          \E j \in LogIdx :
              /\ OwnerSel(j) /\ rsLog[j].depth = rsLog[m].depth
              /\ DoneOf(j, m - 1)
              /\ rsLog[m - 1].err = NoErr
              /\ rsLog[j].obj = rsLog[m].obj.Repo
    /\ \A j, k \in LogIdx :
          (OwnerSel(j) /\ DoneOf(j, k) /\ rsLog[k].err # NoErr /\ k < Len(rsLog)) =>
              /\ rsLog[k + 1].ev = "done"
              /\ rsLog[k + 1].fn = "refResolve"
              /\ rsLog[k + 1].depth = rsLog[j].depth
              /\ rsLog[k + 1].err # NoErr
    /\ \A e \in RefResolutions :
          /\ e.val.Resolved
          /\ e.val.Repo.Resolved
          /\ \E q \in rsCache :
                /\ q.key.field = "repoResolve"
                /\ q.key.client = e.key.client
                /\ q.recv = e.recv.Repo
                /\ q.val = e.val.Repo
          /\ e.val.digest = computeCanonicalRefDigest(e.val)
          /\ ~e.recv.Resolved
          /\ ~e.recv.Repo.Resolved
          /\ e.recv.digest = e.key.recv

\* a ref was resolved in this request: the lookup followed the return of
\* the repository, and the ref given is still unresolved
C32_Witness ==
    /\ \E m \in LogIdx : rsLog[m].ev = "lookup" /\ rsLog[m].err = NoErr
    /\ \E e \in RefResolutions :
          /\ e.val.Repo.Resolved
          /\ ~e.recv.Repo.Resolved
          /\ e.val.Repo # e.recv.Repo

\* The Selects of commonAncestor in the log: the request and its re-issues
CommonAncestorSels ==
    {j \in LogIdx : rsLog[j].ev = "select" /\ rsLog[j].fn = "commonAncestor"}

\* Event j is the Select by which commonAncestor resolves one of its refs
OperandSel(j) == rsLog[j].ev = "select" /\ rsLog[j].why \in {"self", "other"}

\* Event k is the return of the __resolve of the ref selected at event j
OperandDone(j, k) ==
    /\ j < k
    /\ rsLog[k].ev = "done"
    /\ rsLog[k].fn = "refResolve"
    /\ rsLog[k].depth = rsLog[j].depth + 1
    /\ rsLog[k].obj = rsLog[j].obj
    /\ \A m \in LogIdx : (j < m /\ m < k) =>
          ~(rsLog[m].ev = "done" /\ rsLog[m].depth = rsLog[j].depth + 1)

\* What commonAncestor does, as far as the log of the request shows
CommonAncestorOrder ==
    /\ \A m \in LogIdx : rsLog[m].ev = "mergebase" =>
          /\ rsLog[m].obj.self.Resolved
          /\ rsLog[m].obj.other.Resolved
    /\ \A j \in LogIdx : (rsLog[j].ev = "select" /\ rsLog[j].why = "other") =>
          /\ ~rsLog[j].obj.Resolved
          /\ \E i \in CommonAncestorSels :
                i < j /\ rsLog[i].depth = rsLog[j].depth - 1 /\ rsLog[i].obj.Resolved
    /\ \A j \in LogIdx : (rsLog[j].ev = "select" /\ rsLog[j].why = "self") =>
          ~rsLog[j].obj.Resolved
    /\ \A j \in LogIdx : (rsLog[j].ev = "select" /\ rsLog[j].why = "reissue") =>
          /\ rsLog[j].obj.Resolved
          /\ rsLog[j - 1].ev = "done"
          /\ rsLog[j - 1].fn = "refResolve"
          /\ rsLog[j - 1].err = NoErr
    /\ Cardinality(CommonAncestorSels) <= 3
    /\ \A j, k \in LogIdx :
          (OperandSel(j) /\ OperandDone(j, k) /\ rsLog[k].err # NoErr) =>
              /\ \A m \in LogIdx : rsLog[m].ev # "mergebase"
              /\ k < Len(rsLog) =>
                    /\ rsLog[k + 1].ev = "done"
                    /\ rsLog[k + 1].fn = "commonAncestor"
                    /\ rsLog[k + 1].depth = rsLog[j].depth
                    /\ rsLog[k + 1].err = rsLog[k].err

\* C33: commonAncestor computes the merge base only on two resolved refs:
\* an unresolved receiver is resolved first and the request issued again
\* on it, then an unresolved other ref is resolved and the request issued
\* again with it; there are at most two re-issues and the request is
\* answered; when resolving either ref fails the request fails with that
\* error and no merge base is computed
C33_CommonAncestorResolvesBoth ==
    /\ []CommonAncestorOrder
    /\ (rsStack # <<>> /\ rsCur.op = "commonAncestor")
          ~> (rsStack = <<>> /\ rsOut # NoDelivery)

\* both refs were unresolved: two re-issues, then the merge base, delivered
C33_Witness ==
    /\ rsStack = <<>>
    /\ rsCur # NoReq
    /\ rsCur.op = "commonAncestor"
    /\ rsOut # NoDelivery /\ rsOut.err = NoErr
    /\ Cardinality(CommonAncestorSels) = 3
    /\ \E m \in LogIdx : rsLog[m].ev = "mergebase"
    /\ rsOut.val.Resolved

\* ---------------------------------------------------------------------
\* Properties of the persisted digest

\* Computation f leaves the state pc in this step
Leaves(f, pc) == sfCalls[f].pc = pc /\ sfCalls'[f].pc # pc

\* What a computation for the unfiltered root does with the persisted
\* digest, step by step
PersistedDigestStep(f) ==
    /\ Leaves(f, "finalize") =>
          \/ sfCalls'[f].pc = "done" /\ sfCalls'[f].err # "" /\ sfCalls'[f].val = NoDigest
          \/ sfCalls'[f].pc = (IF sfCalls[f].store THEN "getmd" ELSE "walk")
    /\ Leaves(f, "getmd") =>
          IF refMeta[sfCalls[f].ref] # NoDigest
          THEN /\ sfCalls'[f].pc = "done"
               /\ sfCalls'[f].val = refMeta[sfCalls[f].ref]
               /\ sfCalls'[f].err = ""
               /\ ~sfCalls'[f].walked
          ELSE sfCalls'[f].pc = "walk"
    /\ (Leaves(f, "walk") /\ sfCalls[f].store) =>
          /\ sfCalls'[f].walked
          /\ refMeta' = refMeta
          /\ \/ sfCalls'[f].pc = "setmd" /\ sfCalls'[f].err = ""
             \/ sfCalls'[f].pc = "done" /\ sfCalls'[f].err # "" /\ sfCalls'[f].val = NoDigest
    /\ Leaves(f, "setmd") =>
          /\ sfCalls'[f].pc = "done"
          /\ \/ /\ sfCalls'[f].err = ""
                /\ sfCalls'[f].val = sfCalls[f].val
                /\ refMeta'[sfCalls[f].ref] = sfCalls'[f].val
             \/ /\ sfCalls'[f].err # ""
                /\ sfCalls'[f].val = NoDigest
                /\ refMeta' = refMeta

\* C34: a computation for the unfiltered root returns the persisted digest
\* without a walk when the ref carries one; otherwise it walks, persists the
\* digest of a successful walk before returning it, and returns an error
\* when the walk or the persisting fails
C34_PersistedDigestReused ==
    [][\A f \in Callers : PersistedDigestStep(f)]_vars

\* one caller was answered from the digest another had persisted, the other
\* from its own walk
C34_Witness ==
    \E c, d \in Callers :
        /\ ckPc[c] = "done" /\ ckPc[d] = "done"
        /\ ckIn[c].store /\ ckIn[d].store
        /\ ckCall[c] = c /\ ckCall[d] = d
        /\ sfCalls[c].walked /\ sfCalls[c].err = ""
        /\ sfCalls[d].fromMeta /\ ~sfCalls[d].walked
        /\ ckOut[d].val = ckOut[c].val
        /\ refMeta[ckIn[c].ref] = ckOut[c].val

\* The options of the calls made so far
OptsInUse == {ckIn[c].opts : c \in {d \in Callers : ckPc[d] # "idle"}}

\* C35: two ChecksumOpts have the same checksumOptsKey exactly when they
\* agree on FollowLinks, Wildcard, the include patterns and the exclude
\* patterns
C35_OptsKeySeparates ==
    \A o1, o2 \in OptsInUse :
        (checksumOptsKey(o1) = checksumOptsKey(o2)) <=> (o1 = o2)

\* The digests persisted by the computations so far, per ref: the digest a
\* computation that has set the metadata returned
Persisted(r) ==
    {sfCalls[f].val : f \in {g \in Callers :
        /\ sfCalls[g].pc = "done" /\ sfCalls[g].ref = r /\ sfCalls[g].store
        /\ sfCalls[g].walked /\ sfCalls[g].err = ""}}

\* C36: all digests persisted for one ref are equal, and a caller that is
\* answered from the persisted digest gets the digest a walk with its own
\* options would have given
C36_PersistedWritesAgree ==
    /\ \A r \in CkRefs : Cardinality(Persisted(r)) <= 1
    /\ \A c \in Callers :
          (ckPc[c] = "done" /\ ckOut[c].err = "" /\ sfCalls[ckCall[c]].fromMeta) =>
              ckOut[c].val = BkChecksum(ckIn[c].ref, ckIn[c].subdir, ckIn[c].opts)

\* Event j is the Select of repoResolve on a descriptor
RepoSel(j) == rsLog[j].ev = "select" /\ rsLog[j].fn = "repoResolve"

\* C37: repoResolve leaves the descriptor it was given as it was: when a
\* run returns, with a result or with an error, the descriptor is the one
\* that was selected
C37_InputNotMutated ==
    \A j, k \in LogIdx :
        (RepoSel(j) /\ DoneOf(j, k)) => rsLog[k].obj = rsLog[j].obj

\* Event m is a step of the resolution made for the request: a redirect or
\* an ls-remote
ResolutionStep(m) ==
    \/ rsLog[m].ev = "select" /\ rsLog[m].why \in {"redirect", "candidate", "ctxauth"}
    \/ rsLog[m].ev = "lsremote"

\* The username a redirect with a credential of the store sets on purpose
StoreUsername(m) ==
    IF rsLog[m].ev = "select" /\ rsLog[m].why = "ctxauth"
       /\ rsLog[m].obj.URL.Scheme = HTTPSProtocol
    THEN getCredentialFromStore(rsEnv, rsCur.client).username
    ELSE ""

\* C38: every redirect of a repository resolution, and the ls-remote at its
\* end, has the services of the request it replaces and, when the caller
\* gave a username and the redirect sets none of its own, the caller's
\* username
C38_RedirectKeepsServicesAndUsername ==
    (rsCur # NoReq /\ rsCur.op = "repoResolve") =>
        \A m \in LogIdx : ResolutionStep(m) =>
            /\ rsLog[m].obj.Services = rsCur.recv.Services
            /\ (rsCur.recv.AuthUsername # "" /\ StoreUsername(m) = "") =>
                  rsLog[m].obj.AuthUsername = rsCur.recv.AuthUsername

----------------------------------------------------------------------------
(* The context-aware reader and writer (engine/session/ctxio/ctxio.go)      *)
(*                                                                          *)
(* NewReader and NewWriter start two goroutines around an io.Pipe: one      *)
(* copies between the pipe and the underlying stream, closes its end of the *)
(* pipe with what io.Copy returned and closes the channel done; the other   *)
(* waits for the context or for done, and on the context closes done and    *)
(* then the pipe with ctx.Err().  The user holds the other end of the pipe. *)

\* Chunks the source delivers, or the user writes, at most
MaxChunks == 2

EOF == "EOF"

ErrClosedPipe == "io: read/write on closed pipe"

Canceled == "context canceled"

DeadlineExceeded == "context deadline exceeded"

ErrStream == "stream failed"

\* io.Pipe: an end that was closed keeps the first error it was closed with;
\* closing the write end with no error stores EOF, the read end ErrClosedPipe
closeWrite(p, err) ==
    IF p.werr # "" THEN p ELSE [p EXCEPT !.werr = IF err = "" THEN EOF ELSE err]

closeRead(p, err) ==
    IF p.rerr # "" THEN p ELSE [p EXCEPT !.rerr = IF err = "" THEN ErrClosedPipe ELSE err]

\* the pipe's own done channel: closed when either end was closed
pipeDone(p) == p.werr # "" \/ p.rerr # ""

\* what Read resp. Write on a closed pipe returns
readCloseError(p) == IF p.rerr = "" /\ p.werr # "" THEN p.werr ELSE ErrClosedPipe

writeCloseError(p) == IF p.werr = "" /\ p.rerr # "" THEN p.rerr ELSE ErrClosedPipe

\* The end of the pipe the goroutines hold is closed: pw.CloseWithError in
\* NewReader, pr.CloseWithError in NewWriter
CloseWithError(err) ==
    IF cxKind = "reader" THEN closeWrite(cxPipe, err) ELSE closeRead(cxPipe, err)

\* What the user's blocked call returns once the pipe is closed
UserCloseError ==
    IF cxKind = "reader" THEN readCloseError(cxPipe) ELSE writeCloseError(cxPipe)

\* close(done): closing a closed channel panics, and the panic ends the process
CloseDone == cxDone' = IF cxDone = 0 THEN 1 ELSE 2

Panicked == cxDone = 2

\* NewReader(ctx, r) or NewWriter(ctx, w) has returned
CxInit ==
    /\ cxKind \in {"reader", "writer"}
    /\ cxCtx = ""
    /\ cxDone = 0
    /\ cxPipe = [werr |-> "", rerr |-> ""]
    /\ cxPc = [copy |-> "src", wait |-> "select", user |-> "idle", closer |-> "idle"]
    /\ cxErr = [copy |-> "", user |-> ""]
    /\ cxLeft \in 0..MaxChunks

\* io.Copy reads its source: the underlying reader in NewReader (a chunk,
\* the end, or an error), the pipe in NewWriter (what the user writes, or
\* the error the pipe was closed with, EOF ending the copy with no error)
CopySrc ==
    /\ ~Panicked
    /\ cxPc.copy = "src"
    /\ IF cxKind = "reader"
       THEN \/ /\ cxLeft > 0
               /\ cxLeft' = cxLeft - 1
               /\ cxPc' = [cxPc EXCEPT !.copy = "dst"]
               /\ UNCHANGED cxErr
            \/ /\ cxLeft = 0
               /\ cxPc' = [cxPc EXCEPT !.copy = "closepipe"]
               /\ cxErr' = [cxErr EXCEPT !.copy = ""]
               /\ UNCHANGED cxLeft
            \/ /\ cxPc' = [cxPc EXCEPT !.copy = "closepipe"]
               /\ cxErr' = [cxErr EXCEPT !.copy = ErrStream]
               /\ UNCHANGED cxLeft
       ELSE IF pipeDone(cxPipe)
            THEN /\ cxPc' = [cxPc EXCEPT !.copy = "closepipe"]
                 /\ cxErr' = [cxErr EXCEPT !.copy =
                        IF readCloseError(cxPipe) = EOF THEN "" ELSE readCloseError(cxPipe)]
                 /\ UNCHANGED cxLeft
            ELSE /\ cxPc.user = "blocked"
                 /\ cxPc' = [cxPc EXCEPT !.copy = "dst", !.user = "idle"]
                 /\ cxErr' = [cxErr EXCEPT !.user = ""]
                 /\ UNCHANGED cxLeft
    /\ UNCHANGED <<cxKind, cxCtx, cxDone, cxPipe>>
    /\ CxOnly

\* io.Copy writes to its destination: the pipe in NewReader (taken by the
\* user's Read, or refused by a closed pipe), the underlying writer in
\* NewWriter (accepted, or an error)
CopyDst ==
    /\ ~Panicked
    /\ cxPc.copy = "dst"
    /\ IF cxKind = "reader"
       THEN IF pipeDone(cxPipe)
            THEN /\ cxPc' = [cxPc EXCEPT !.copy = "closepipe"]
                 /\ cxErr' = [cxErr EXCEPT !.copy = writeCloseError(cxPipe)]
            ELSE /\ cxPc.user = "blocked"
                 /\ cxPc' = [cxPc EXCEPT !.copy = "src", !.user = "idle"]
                 /\ cxErr' = [cxErr EXCEPT !.user = ""]
       ELSE \/ /\ cxPc' = [cxPc EXCEPT !.copy = "src"]
               /\ UNCHANGED cxErr
            \/ /\ cxPc' = [cxPc EXCEPT !.copy = "closepipe"]
               /\ cxErr' = [cxErr EXCEPT !.copy = ErrStream]
    /\ UNCHANGED <<cxKind, cxCtx, cxDone, cxPipe, cxLeft>>
    /\ CxOnly

\* pw.CloseWithError(err) resp. pr.CloseWithError(err) after io.Copy
CopyClosePipe ==
    /\ ~Panicked
    /\ cxPc.copy = "closepipe"
    /\ cxPipe' = CloseWithError(cxErr.copy)
    /\ cxPc' = [cxPc EXCEPT !.copy = "closedone"]
    /\ UNCHANGED <<cxKind, cxCtx, cxDone, cxErr, cxLeft>>
    /\ CxOnly

\* close(done) at the end of the copying goroutine
CopyCloseDone ==
    /\ ~Panicked
    /\ cxPc.copy = "closedone"
    /\ CloseDone
    /\ cxPc' = [cxPc EXCEPT !.copy = "exit"]
    /\ UNCHANGED <<cxKind, cxCtx, cxPipe, cxErr, cxLeft>>
    /\ CxOnly

\* select: case <-ctx.Done()
WaitCtx ==
    /\ ~Panicked
    /\ cxPc.wait = "select"
    /\ cxCtx # ""
    /\ cxPc' = [cxPc EXCEPT !.wait = "closedone"]
    /\ UNCHANGED <<cxKind, cxCtx, cxDone, cxPipe, cxErr, cxLeft>>
    /\ CxOnly

\* select: case <-done
WaitDone ==
    /\ ~Panicked
    /\ cxPc.wait = "select"
    /\ cxDone >= 1
    /\ cxPc' = [cxPc EXCEPT !.wait = "exit"]
    /\ UNCHANGED <<cxKind, cxCtx, cxDone, cxPipe, cxErr, cxLeft>>
    /\ CxOnly

\* close(done) in the branch of the context
WaitCloseDone ==
    /\ ~Panicked
    /\ cxPc.wait = "closedone"
    /\ CloseDone
    /\ cxPc' = [cxPc EXCEPT !.wait = "closepipe"]
    /\ UNCHANGED <<cxKind, cxCtx, cxPipe, cxErr, cxLeft>>
    /\ CxOnly

\* pw.CloseWithError(ctx.Err()) resp. pr.CloseWithError(ctx.Err())
WaitClosePipe ==
    /\ ~Panicked
    /\ cxPc.wait = "closepipe"
    /\ cxPipe' = CloseWithError(cxCtx)
    /\ cxPc' = [cxPc EXCEPT !.wait = "aborted"]
    /\ UNCHANGED <<cxKind, cxCtx, cxDone, cxErr, cxLeft>>
    /\ CxOnly

\* The context given to the constructor is cancelled or times out
Cancel(err) ==
    /\ ~Panicked
    /\ cxCtx = ""
    /\ cxCtx' = err
    /\ UNCHANGED <<cxKind, cxDone, cxPipe, cxPc, cxErr, cxLeft>>
    /\ CxOnly

\* The user calls Read on the reader, or Write on the writer, and blocks
UserCall ==
    /\ ~Panicked
    /\ cxPc.user = "idle"
    /\ cxPc' = [cxPc EXCEPT !.user = "blocked"]
    /\ IF cxKind = "writer"
       THEN cxLeft > 0 /\ cxLeft' = cxLeft - 1
       ELSE UNCHANGED cxLeft
    /\ UNCHANGED <<cxKind, cxCtx, cxDone, cxPipe, cxErr>>
    /\ CxOnly

\* The user's call returns the error of the closed pipe
UserReturn ==
    /\ ~Panicked
    /\ cxPc.user = "blocked"
    /\ pipeDone(cxPipe)
    /\ cxErr' = [cxErr EXCEPT !.user = UserCloseError]
    /\ cxPc' = [cxPc EXCEPT !.user = "idle"]
    /\ UNCHANGED <<cxKind, cxCtx, cxDone, cxPipe, cxLeft>>
    /\ CxOnly

\* Close, first half: cr.cancel() resp. cw.cancel()
CloseCancel ==
    /\ ~Panicked
    /\ cxPc.closer = "idle"
    /\ cxCtx' = IF cxCtx = "" THEN Canceled ELSE cxCtx
    /\ cxPc' = [cxPc EXCEPT !.closer = "cancelled"]
    /\ UNCHANGED <<cxKind, cxDone, cxPipe, cxErr, cxLeft>>
    /\ CxOnly

\* Close, second half: cr.PipeReader.Close() resp. cw.PipeWriter.Close()
ClosePipe ==
    /\ ~Panicked
    /\ cxPc.closer = "cancelled"
    /\ cxPipe' = IF cxKind = "reader" THEN closeRead(cxPipe, "") ELSE closeWrite(cxPipe, "")
    /\ cxPc' = [cxPc EXCEPT !.closer = "closed"]
    /\ UNCHANGED <<cxKind, cxCtx, cxDone, cxErr, cxLeft>>
    /\ CxOnly

CxNext ==
    \/ CopySrc
    \/ CopyDst
    \/ CopyClosePipe
    \/ CopyCloseDone
    \/ WaitCtx
    \/ WaitDone
    \/ WaitCloseDone
    \/ WaitClosePipe
    \/ \E err \in {Canceled, DeadlineExceeded} : Cancel(err)
    \/ UserCall
    \/ UserReturn
    \/ CloseCancel
    \/ ClosePipe

InitCtxio == CxInit /\ CkIdle /\ RmIdle /\ RsIdle /\ CgIdle

SpecCtxio == InitCtxio /\ [][CxNext]_vars

----------------------------------------------------------------------------
(* Properties of the context-aware reader and writer *)

\* The user's call is blocked, the context was cancelled, the waiting
\* goroutine has closed the pipe for it and the user has not called Close
BlockedAfterCancel ==
    /\ cxPc.user = "blocked"
    /\ cxCtx # ""
    /\ cxPc.wait = "aborted"
    /\ cxPc.closer = "idle"

\* C39: done is closed at most once, whatever the order of the cancellation
\* (or Close) and the end of the copy; and a call of the user that is blocked
\* when the cancellation has closed the pipe returns the context's error,
\* unless the copy had ended and closed the pipe before
C39_DoneClosedOnce ==
    /\ cxDone <= 1
    /\ BlockedAfterCancel =>
          \/ UserCloseError = cxCtx
          \/ cxPc.copy \in {"closedone", "exit"}

----------------------------------------------------------------------------
(* The runner of checks (core/checks.go)                                    *)
(*                                                                          *)
(* A CheckGroup holds a slice of pointers to Check objects.  The objects    *)
(* live in cgHeap, the backing arrays of the slices in cgArrs, and a group  *)
(* value holds the id of the array its slice points into, so that what a    *)
(* copy of the struct shares with the original is computed and not assumed. *)

\* Checks in the group
NumChecks == 2

\* Calls of Run made at most
MaxRuns == 2

CheckIdx == 1..NumChecks

CheckPaths == [i \in CheckIdx |-> <<"check", ToString(i)>>]

\* The errors a selection of a check returns ("": none)
CheckErrs == {"", "exit code: 1"}

ErrNoQuery == "no query in context"

NoGroup == [Module |-> "", Checks |-> 0]

\* A check as Module.Checks makes it: no result yet
NewCheck(path) ==
    [Path |-> path, Completed |-> FALSE, Passed |-> FALSE, Message |-> ""]

\* The group the module's checks were loaded into
Group0 == [Module |-> "m", Checks |-> 1]

\* r.Checks[i], dereferenced
ChecksOf(g) == [i \in 1..Len(cgArrs[g.Checks]) |-> cgHeap[cgArrs[g.Checks][i]]]

CgInit ==
    /\ cgHeap = [i \in CheckIdx |-> NewCheck(CheckPaths[i])]
    /\ cgArrs = << [i \in CheckIdx |-> i] >>
    /\ cgCall = [pc |-> "idle"]
    /\ cgRuns = 0

\* Check.Clone: cp := *c; return &cp, a new object with the same fields.
\* CheckGroup.Clone: cp := *r copies the struct, and with it the slice
\* header of Checks, so cp.Checks[i] = cp.Checks[i].Clone() stores the new
\* objects into the array r.Checks points into as well
CloneHeap(r) ==
    cgHeap \o [i \in 1..Len(cgArrs[r.Checks]) |-> cgHeap[cgArrs[r.Checks][i]]]

CloneArrs(r) ==
    [cgArrs EXCEPT ![r.Checks] = [i \in 1..Len(@) |-> Len(cgHeap) + i]]

Clone(r) == [Module |-> r.Module, Checks |-> r.Checks]

\* Run is called on a group: the one loaded, or the one a call returned.
\* r = r.Clone()
Run(g) ==
    /\ cgCall.pc \in {"idle", "returned"}
    /\ cgRuns < MaxRuns
    /\ g.Checks # 0
    /\ cgRuns' = cgRuns + 1
    /\ cgHeap' = CloneHeap(g)
    /\ cgArrs' = CloneArrs(g)
    /\ cgCall' = [pc |-> "cloned", recv |-> g, before |-> ChecksOf(g),
                  r |-> Clone(g),
                  jobs |-> [i \in CheckIdx |-> "pending"],
                  errs |-> [i \in CheckIdx |-> ""],
                  ret |-> NoGroup, err |-> ""]
    /\ CgOnly

\* CurrentQuery, the cache, the server and the installs: each may fail, and
\* Run then returns no group and the error
RunSetup(ok) ==
    /\ cgCall.pc = "cloned"
    /\ cgCall' = IF ok THEN [cgCall EXCEPT !.pc = "jobs"]
                 ELSE [cgCall EXCEPT !.pc = "returned", !.err = ErrNoQuery]
    /\ UNCHANGED <<cgHeap, cgArrs, cgRuns>>
    /\ CgOnly

\* The check of job i: the element of r.Checks the loop was at
JobCheck(i) == cgArrs[cgCall.r.Checks][i]

\* A job starts: it resets the output fields of its check
JobReset(i) ==
    /\ cgCall.pc = "jobs"
    /\ cgCall.jobs[i] = "pending"
    /\ cgHeap' = [cgHeap EXCEPT ![JobCheck(i)] =
                    [@ EXCEPT !.Completed = FALSE, !.Passed = FALSE, !.Message = ""]]
    /\ cgCall' = [cgCall EXCEPT !.jobs[i] = "reset"]
    /\ UNCHANGED <<cgArrs, cgRuns>>
    /\ CgOnly

\* checkErr := dag.Select(ctx, dag.Root(), &status, selectPath...)
JobSelect(i, checkErr) ==
    /\ cgCall.pc = "jobs"
    /\ cgCall.jobs[i] = "reset"
    /\ cgCall' = [cgCall EXCEPT !.jobs[i] = "selected", !.errs[i] = checkErr]
    /\ UNCHANGED <<cgHeap, cgArrs, cgRuns>>
    /\ CgOnly

\* check.Completed = true; with an error, Passed = false and the message
JobFinish(i) ==
    /\ cgCall.pc = "jobs"
    /\ cgCall.jobs[i] = "selected"
    /\ cgHeap' = [cgHeap EXCEPT ![JobCheck(i)] =
                    IF cgCall.errs[i] # ""
                    THEN [@ EXCEPT !.Completed = TRUE, !.Passed = FALSE,
                                   !.Message = cgCall.errs[i]]
                    ELSE [@ EXCEPT !.Completed = TRUE]]
    /\ cgCall' = [cgCall EXCEPT !.jobs[i] = "done"]
    /\ UNCHANGED <<cgArrs, cgRuns>>
    /\ CgOnly

\* _ = jobs.Run(ctx) has run every job; return r, nil
RunReturn ==
    /\ cgCall.pc = "jobs"
    /\ \A i \in CheckIdx : cgCall.jobs[i] = "done"
    /\ cgCall' = [cgCall EXCEPT !.pc = "returned", !.ret = cgCall.r]
    /\ UNCHANGED <<cgHeap, cgArrs, cgRuns>>
    /\ CgOnly

CgNext ==
    \/ Run(Group0)
    \/ cgCall.pc = "returned" /\ Run(cgCall.ret)
    \/ \E ok \in BOOLEAN : RunSetup(ok)
    \/ \E i \in CheckIdx : JobReset(i)
    \/ \E i \in CheckIdx, checkErr \in CheckErrs : JobSelect(i, checkErr)
    \/ \E i \in CheckIdx : JobFinish(i)
    \/ RunReturn

InitChecks == CgInit /\ CkIdle /\ RmIdle /\ RsIdle /\ CxIdle

SpecChecks == InitChecks /\ [][CgNext]_vars

----------------------------------------------------------------------------
(* Properties of the runner of checks *)

\* Run has returned a group
RunReturned == cgCall.pc = "returned" /\ cgCall.err = ""

\* C40: when Run has returned a group, every check of that group is
\* completed; a check whose selection returned no error has passed and has
\* no message; a check whose selection returned an error has not passed and
\* has the error's text as message; and the checks of the group Run was
\* called on are what they were at the call
C40_RunResults ==
    RunReturned =>
        /\ \A i \in CheckIdx :
              /\ ChecksOf(cgCall.ret)[i].Completed
              /\ cgCall.errs[i] = "" =>
                    /\ ChecksOf(cgCall.ret)[i].Passed
                    /\ ChecksOf(cgCall.ret)[i].Message = ""
              /\ cgCall.errs[i] # "" =>
                    /\ ~ChecksOf(cgCall.ret)[i].Passed
                    /\ ChecksOf(cgCall.ret)[i].Message = cgCall.errs[i]
        /\ ChecksOf(cgCall.recv) = cgCall.before

====
